---- MODULE Spec2Model ----
(***************************************************************************)
(* A model of opencog/learning/moses/moses/scoring.cc: the behavioural     *)
(* scorers of MOSES.  Scores are floating point numbers in the code; here  *)
(* they are exact extended rationals (a fraction, +inf, -inf or NaN) with  *)
(* the IEEE rules for division by zero, and log() is kept symbolic: a      *)
(* value h*log(x) is the pair of h and x, ordered by x because log is      *)
(* strictly increasing.                                                    *)
(***************************************************************************)
EXTENDS Integers, Sequences, FiniteSets

VARIABLES
    \* --- one configured scorer (bscore_base / discriminating / precision)
    kind,             \* which class the object is
    status,           \* "none", "ok" (constructed) or "assert" (OC_ASSERT fired)
    min_threshold,    \* _min_threshold / min_activation
    max_threshold,    \* _max_threshold / max_activation
    hardness,         \* _hardness / penalty
    ctable_usize,     \* _ctable_usize / ctable_usize
    complexity_coef,  \* bscore_base::complexity_coef
    occam,            \* bscore_base::occam
    call,             \* the last call made on the object, its arguments and result
    \* --- one discretize_contin_bscore and a class_idx call in progress
    thresholds,       \* discretize_contin_bscore::thresholds (sorted)
    weighted_accuracy,\* discretize_contin_bscore::weighted_accuracy
    classes,          \* discretize_contin_bscore::classes
    weights,          \* discretize_contin_bscore::weights
    dc_pc,            \* "none", "idle", "within" (in class_idx_within) or "done"
    dc_v,             \* the argument v of the class_idx call
    l_idx,            \* class_idx_within's l_idx
    u_idx,            \* class_idx_within's u_idx
    dc_depth,         \* number of class_idx_within frames entered so far
    dc_ret,           \* the value class_idx returned
    \* --- the observation table of a table-driven scorer and its extra members
    ctable,           \* the CTable: rows in map order, each an input vector and
                      \* a counter of outputs
    output_type,      \* the output type of the table's signature
    positive,         \* precision_bscore::positive
    worst_norm,       \* precision_bscore::worst_norm
    max_output,       \* precision_bscore::max_output
    \* --- the extra members of an interesting_predicate_bscore
    kld_w,            \* interesting_predicate_bscore::kld_w
    skewness_w,       \* interesting_predicate_bscore::skewness_w
    stdU_w,           \* interesting_predicate_bscore::stdU_w
    skew_U_w,         \* interesting_predicate_bscore::skew_U_w
    abs_skewness,     \* interesting_predicate_bscore::abs_skewness
    decompose_kld,    \* interesting_predicate_bscore::decompose_kld
    counter,          \* interesting_predicate_bscore::counter
    pdf,              \* interesting_predicate_bscore::pdf
    skewness,         \* interesting_predicate_bscore::skewness
    \* --- the extra members of the enum scorers
    punish,           \* enum_filter_bscore::punish
    grading,          \* enum_graded_bscore::grading
    \* --- the workers calling operator() on one scorer
    workers,          \* per worker: where it is in operator() and its locals
    \* --- the extra members of a discriminator
    positive_total,   \* discriminator::_positive_total
    negative_total,   \* discriminator::_negative_total
    min_output        \* discriminating_bscore::_min_output

cfgVars == <<kind, status, min_threshold, max_threshold, hardness,
             ctable_usize, complexity_coef, occam, call>>

discVars == <<thresholds, weighted_accuracy, classes, weights,
              dc_pc, dc_v, l_idx, u_idx, dc_depth, dc_ret>>

tabVars == <<ctable, output_type, positive, worst_norm, max_output>>

ipVars == <<kld_w, skewness_w, stdU_w, skew_U_w, abs_skewness, decompose_kld,
            counter, pdf, skewness>>

enumVars == <<punish, grading>>

wrkVars == <<workers>>

dscVars == <<positive_total, negative_total, min_output>>

vars == <<cfgVars, discVars, tabVars, ipVars, enumVars, wrkVars, dscVars>>

\* what the operations of one object leave alone: the other objects
notCfg == <<discVars, tabVars, ipVars, enumVars, wrkVars, dscVars>>
notDisc == <<cfgVars, tabVars, ipVars, enumVars, wrkVars, dscVars>>

-----------------------------------------------------------------------------
(* Bounds of the model.                                                    *)

\* thresholds, probabilities and ratios are drawn from the multiples of
\* 1/(2*GridN) between -1/(2*GridN) and 1 + 1/(2*GridN)
GridN == 2
\* the uncompressed table holds 1..MaxUsize observations
MaxUsize == 2
\* alphabet sizes 0..MaxAlphabet
MaxAlphabet == 2
\* a discretizing scorer has 1..MaxLen thresholds
MaxLen == 4
\* thresholds are drawn from 1..MaxThr, target and candidate outputs from
\* 0..MaxThr+1
MaxThr == 3
\* a table holds 1..MaxRows rows (distinct input vectors)
MaxRows == 2
\* an output value occurs 0..MaxCount times in a row
MaxCount == 2
MaxPrecRows == 2
MaxIPRows == 1
MaxScoreRows == 1
MaxBoundRows == 3
MaxWorkRows == 1
MaxEffRows == 2
MaxScoreThr == 2
MaxDscRows == 2
MaxHistRows == 2

-----------------------------------------------------------------------------
(* Extended rationals.                                                     *)

RECURSIVE GCD(_, _)
GCD(a, b) == IF b = 0 THEN a ELSE GCD(b, a % b)

Abs(n) == IF n < 0 THEN -n ELSE n

\* the fraction n/d, d # 0, in lowest terms with a positive denominator
Rat(n, d) ==
    LET g == GCD(Abs(n), Abs(d))
        s == IF d < 0 THEN -1 ELSE 1
    IN  [t |-> "rat", n |-> (s * n) \div g, d |-> (s * d) \div g]

PInf == [t |-> "pinf", n |-> 0, d |-> 1]
NInf == [t |-> "ninf", n |-> 0, d |-> 1]
NaN  == [t |-> "nan", n |-> 0, d |-> 1]
Zero == Rat(0, 1)
One  == Rat(1, 1)

\* 2^32 + n for -2^32 < n < 0: what an unsigned subtraction that wrapped
\* around yields (a positive number above every fraction of the model)
Wrapped(n) == [t |-> "wrapped", n |-> n, d |-> 1]

IsRat(a) == a.t = "rat"

\* IEEE comparisons: anything compared with NaN is false
XLt(a, b) ==
    /\ a.t # "nan" /\ b.t # "nan"
    /\ \/ a.t = "ninf" /\ b.t # "ninf"
       \/ b.t = "pinf" /\ a.t # "pinf"
       \/ IsRat(a) /\ IsRat(b) /\ a.n * b.d < b.n * a.d
       \/ IsRat(a) /\ b.t = "wrapped"
       \/ a.t = "wrapped" /\ b.t = "wrapped" /\ a.n < b.n
XLe(a, b) == a.t # "nan" /\ b.t # "nan" /\ ~XLt(b, a)
XEq(a, b) == a.t # "nan" /\ b.t # "nan" /\ a = b

XNeg(a) ==
    CASE a.t = "rat"  -> Rat(-a.n, a.d)
      [] a.t = "pinf" -> NInf
      [] a.t = "ninf" -> PInf
      [] OTHER        -> NaN

XAdd(a, b) ==
    CASE a.t = "nan" \/ b.t = "nan" -> NaN
      [] IsRat(a) /\ IsRat(b) -> Rat(a.n * b.d + b.n * a.d, a.d * b.d)
      [] IsRat(a) -> b
      [] IsRat(b) -> a
      [] a.t = b.t -> a
      [] OTHER -> NaN

XSub(a, b) == XAdd(a, XNeg(b))

Sign(a) ==
    CASE a.t = "pinf" -> 1
      [] a.t = "ninf" -> -1
      [] a.t = "rat" -> IF a.n > 0 THEN 1 ELSE IF a.n < 0 THEN -1 ELSE 0
      [] OTHER -> 0

XMul(a, b) ==
    CASE a.t = "nan" \/ b.t = "nan" -> NaN
      [] IsRat(a) /\ IsRat(b) -> Rat(a.n * b.n, a.d * b.d)
      [] Sign(a) * Sign(b) > 0 -> PInf
      [] Sign(a) * Sign(b) < 0 -> NInf
      [] OTHER -> NaN

XDiv(a, b) ==
    CASE a.t = "nan" \/ b.t = "nan" -> NaN
      [] IsRat(a) /\ IsRat(b) /\ b.n # 0 -> Rat(a.n * b.d, a.d * b.n)
      [] IsRat(a) /\ IsRat(b) ->
            IF a.n > 0 THEN PInf ELSE IF a.n < 0 THEN NInf ELSE NaN
      [] IsRat(a) -> Zero
      [] IsRat(b) -> IF Sign(a) * (IF b.n < 0 THEN -1 ELSE 1) > 0 THEN PInf ELSE NInf
      [] OTHER -> NaN

\* the sign of log(x): "neg", "zero", "pos", "ninf" (log 0), "pinf" or "nan"
LogSign(x) ==
    CASE x.t = "nan" -> "nan"
      [] x.t = "pinf" -> "pinf"
      [] XLt(x, Zero) -> "nan"
      [] x = Zero -> "ninf"
      [] XLt(x, One) -> "neg"
      [] x = One -> "zero"
      [] OTHER -> "pos"

Grid == {Rat(k, 2 * GridN) : k \in -1 .. 2 * GridN + 1}
Half == Rat(1, 2)


-----------------------------------------------------------------------------
(* Complexity coefficients.  A coefficient is either a plain number or the *)
(* discrete form -log(a)/log(p/(1-p)), possibly divided by a table size.   *)

CoefRat(v) == [form |-> "rat", v |-> v, a |-> 0, p |-> Zero, div |-> 1]
CoefDisc(a, p, div) == [form |-> "disc", v |-> Zero, a |-> a, p |-> p, div |-> div]

\* score_t discrete_complexity_coef(unsigned alphabet_size, double p)
discrete_complexity_coef(alphabet_size, p) == CoefDisc(alphabet_size, p, 1)

\* a coefficient divided by an unsigned table size (size > 0)
CoefDivInt(c, size) ==
    IF c.form = "rat" THEN CoefRat(XDiv(c.v, Rat(size, 1)))
    ELSE CoefDisc(c.a, c.p, c.div * size)

\* IEEE division on sign classes "neg", "zero", "pos", "ninf", "pinf", "nan"
SignDiv(num, den) ==
    LET inf(s) == s \in {"ninf", "pinf"}
        sg(s) == IF s \in {"neg", "ninf"} THEN -1 ELSE 1
    IN  CASE num = "nan" \/ den = "nan" -> "nan"
          [] den = "zero" -> IF num = "zero" THEN "nan"
                             ELSE IF sg(num) > 0 THEN "pinf" ELSE "ninf"
          [] inf(den) -> IF inf(num) THEN "nan" ELSE "zero"
          [] num = "zero" -> "zero"
          [] inf(num) -> IF sg(num) * sg(den) > 0 THEN "pinf" ELSE "ninf"
          [] OTHER -> IF sg(num) * sg(den) > 0 THEN "pos" ELSE "neg"

SignNeg(s) ==
    CASE s = "neg" -> "pos" [] s = "pos" -> "neg"
      [] s = "ninf" -> "pinf" [] s = "pinf" -> "ninf"
      [] OTHER -> s

SignOf(a) ==
    CASE a.t = "nan" -> "nan" [] a.t = "pinf" -> "pinf" [] a.t = "ninf" -> "ninf"
      [] OTHER -> IF a.n > 0 THEN "pos" ELSE IF a.n < 0 THEN "neg" ELSE "zero"

\* the sign class of a coefficient's value
CoefSign(c) ==
    IF c.form = "rat" THEN SignOf(c.v)
    ELSE SignDiv(SignNeg(LogSign(Rat(c.a, 1))),
                 LogSign(XDiv(c.p, XSub(One, c.p))))

\* equality of coefficient values: a discrete coefficient that is finite and
\* non-zero changes when its divisor changes
CoefEq(c1, c2) ==
    \/ c1 = c2
    \/ /\ c1.form = "disc" /\ c2.form = "disc"
       /\ c1.a = c2.a /\ c1.p = c2.p
       /\ CoefSign(c1) \in {"zero", "pinf", "ninf"}
    \/ /\ c1.form # c2.form
       /\ CoefSign(c1) = "zero" /\ CoefSign(c2) = "zero"

-----------------------------------------------------------------------------
(* set_complexity_coef: each returns the new <<complexity_coef, occam>>.   *)

\* void bscore_base::set_complexity_coef(unsigned alphabet_size, float p)
base_set_complexity_coef(alphabet_size, p) ==
    LET oc == XLt(Zero, p) /\ XLt(p, Half)
    IN  [coef |-> IF oc THEN discrete_complexity_coef(alphabet_size, p)
                  ELSE CoefRat(Zero),
         occam |-> oc]

\* void bscore_base::set_complexity_coef(score_t complexity_ratio)
base_set_complexity_coef_ratio(complexity_ratio) ==
    LET oc == XLt(Zero, complexity_ratio)
    IN  [coef |-> IF oc THEN CoefRat(XDiv(One, complexity_ratio)) ELSE CoefRat(Zero),
         occam |-> oc]

\* (mutant) the singular point p = 0.5 taken for a valid noise level
discriminating_set_complexity_coef_closed(alphabet_size, p, usize) ==
    LET oc == XLt(Zero, p) /\ XLe(p, Half)
    IN  [coef |-> IF oc
                  THEN CoefDivInt(discrete_complexity_coef(alphabet_size, p), usize)
                  ELSE CoefRat(Zero),
         occam |-> oc]

\* void discriminating_bscore::set_complexity_coef(unsigned alphabet_size, float p)
discriminating_set_complexity_coef(alphabet_size, p, usize) ==
    LET oc == XLt(Zero, p) /\ XLt(p, Half)
    IN  [coef |-> IF oc
                  THEN CoefDivInt(discrete_complexity_coef(alphabet_size, p), usize)
                  ELSE CoefRat(Zero),
         occam |-> oc]

\* void discriminating_bscore::set_complexity_coef(score_t ratio)
discriminating_set_complexity_coef_ratio(ratio, usize) ==
    LET oc == XLt(Zero, ratio)
    IN  [coef |-> IF oc THEN CoefRat(XDiv(One, XMul(Rat(usize, 1), ratio)))
                  ELSE CoefRat(Zero),
         occam |-> oc]

\* void precision_bscore::set_complexity_coef(unsigned alphabet_size, float p)
precision_set_complexity_coef(alphabet_size, p, usize) ==
    LET oc == XLt(Zero, p) /\ XLt(p, Half)
    IN  [coef |-> IF oc
                  THEN CoefDivInt(discrete_complexity_coef(alphabet_size, p), usize)
                  ELSE CoefRat(Zero),
         occam |-> oc]

\* (mutant) the ratio form without the normalization by the table size
precision_set_complexity_coef_ratio_unnormalized(ratio, usize) ==
    LET oc == XLt(Zero, ratio)
    IN  [coef |-> IF oc THEN CoefRat(XDiv(One, ratio)) ELSE CoefRat(Zero),
         occam |-> oc]

\* void precision_bscore::set_complexity_coef(score_t ratio)
precision_set_complexity_coef_ratio(ratio, usize) ==
    LET oc == XLt(Zero, ratio)
    IN  [coef |-> IF oc THEN CoefRat(XDiv(One, XMul(Rat(usize, 1), ratio)))
                  ELSE CoefRat(Zero),
         occam |-> oc]

-----------------------------------------------------------------------------
(* Construction-time validation and the threshold penalty.                 *)

\* (mutant) equal bounds rejected
discriminating_bscore_valid_strict(min_thr, max_thr, hard) ==
    XLt(Zero, hard) /\ XLt(Zero, min_thr) /\ XLt(min_thr, max_thr)

\* OC_ASSERT of discriminating_bscore::discriminating_bscore
discriminating_bscore_valid(min_thr, max_thr, hard) ==
    XLt(Zero, hard) /\ XLt(Zero, min_thr) /\ XLe(min_thr, max_thr)

\* (mutant) a zero minimum activation accepted
precision_bscore_valid_zero_min(min_act, max_act, pen) ==
    XLt(Zero, pen) /\ XLe(Zero, min_act) /\ XLe(min_act, max_act)

\* OC_ASSERT of precision_bscore::precision_bscore
precision_bscore_valid(min_act, max_act, pen) ==
    XLt(Zero, pen) /\ XLt(Zero, min_act) /\ XLe(min_act, max_act)

\* the result h * log(x) of a penalty, with the distance dst it came from
Penalty(dst, h) == [dst |-> dst, x |-> XSub(One, dst), h |-> h]

\* score_t discriminating_bscore::get_threshold_penalty(score_t value) const
get_threshold_penalty(value, min_thr, max_thr, hard) ==
    LET dst1 == IF XLt(value, min_thr)
                THEN XSub(One, XDiv(value, min_thr)) ELSE Zero
        dst2 == IF XLt(max_thr, value)
                THEN XDiv(XSub(value, max_thr), XSub(One, max_thr)) ELSE dst1
    IN  Penalty(dst2, hard)

\* (mutant) no penalty above the maximum activation
get_activation_penalty_no_upper(activation, min_act, max_act, pen) ==
    LET dst1 == IF XLt(activation, min_act)
                THEN XSub(One, XDiv(activation, min_act)) ELSE Zero
    IN  Penalty(dst1, pen)

\* score_t precision_bscore::get_activation_penalty(score_t activation) const
get_activation_penalty(activation, min_act, max_act, pen) ==
    LET dst1 == IF XLt(activation, min_act)
                THEN XSub(One, XDiv(activation, min_act)) ELSE Zero
        dst2 == IF XLt(max_act, activation)
                THEN XDiv(XSub(activation, max_act), XSub(One, max_act)) ELSE dst1
    IN  Penalty(dst2, pen)

\* the sign class of the penalty h * log(x)
PenSign(r) ==
    LET l == LogSign(r.x)
        s == SignOf(r.h)
    IN  CASE l = "nan" \/ s = "nan" -> "nan"
          [] s = "pos" \/ s = "pinf" -> IF l = "zero" /\ s = "pinf" THEN "nan" ELSE l
          [] s = "zero" -> IF l \in {"ninf", "pinf"} THEN "nan" ELSE "zero"
          [] OTHER -> IF l = "zero" /\ s = "ninf" THEN "nan" ELSE SignNeg(l)

\* r1 < r2 for two penalties of the same positive finite hardness
PenLt(r1, r2) ==
    /\ r1.h = r2.h /\ SignOf(r1.h) = "pos"
    /\ LogSign(r1.x) # "nan" /\ LogSign(r2.x) # "nan"
    /\ XLt(r1.x, r2.x)


-----------------------------------------------------------------------------
(* The configured scorer: construction, calibration, penalty queries.      *)

Kinds == {"bscore_base", "discriminating_bscore", "precision_bscore"}
Bounded == {"discriminating_bscore", "precision_bscore"}

NoVal == [t |-> "none", n |-> 0, d |-> 1]
NoRet == [dst |-> NoVal, x |-> NoVal, h |-> NoVal]

\* hardness / penalty values: negative, zero and positive
HardVals == {Rat(k, 2 * GridN) : k \in -1 .. 1}

InitCfg ==
    /\ kind = "none"
    /\ status = "none"
    /\ min_threshold = NoVal
    /\ max_threshold = NoVal
    /\ hardness = NoVal
    /\ ctable_usize = 0
    /\ complexity_coef = CoefRat(Zero)
    /\ occam = FALSE
    /\ call = [op |-> "none", args |-> <<>>, pre_occam |-> FALSE, ret |-> NoRet]

\* a scorer that only inherits bscore_base (no bounds, no table size kept)
ConstructBase ==
    /\ status = "none"
    /\ kind' = "bscore_base"
    /\ status' = "ok"
    /\ min_threshold' = NoVal
    /\ max_threshold' = NoVal
    /\ hardness' = NoVal
    /\ ctable_usize' = 0
    /\ complexity_coef' = CoefRat(Zero)
    /\ occam' = FALSE
    /\ call' = [op |-> "construct", args |-> <<>>, pre_occam |-> FALSE, ret |-> NoRet]
    /\ UNCHANGED notCfg

\* discriminating_bscore::discriminating_bscore, precision_bscore::precision_bscore:
\* the members are initialized from the arguments, then OC_ASSERT checks them
Construct ==
    /\ status = "none"
    /\ \E k \in Bounded, mn \in Grid, mx \in Grid, h \in HardVals,
          us \in 1 .. MaxUsize :
            LET valid == IF k = "discriminating_bscore"
                         THEN discriminating_bscore_valid(mn, mx, h)
                         ELSE precision_bscore_valid(mn, mx, h)
            IN  /\ kind' = k
                /\ status' = IF valid THEN "ok" ELSE "assert"
                /\ min_threshold' = IF valid THEN mn ELSE NoVal
                /\ max_threshold' = IF valid THEN mx ELSE NoVal
                /\ hardness' = IF valid THEN h ELSE NoVal
                /\ ctable_usize' = IF valid THEN us ELSE 0
                /\ complexity_coef' = CoefRat(Zero)
                /\ occam' = FALSE
                /\ call' = [op |-> "construct", args |-> <<mn, mx, h>>,
                            pre_occam |-> FALSE, ret |-> NoRet]
                /\ UNCHANGED notCfg

\* set_complexity_coef(unsigned alphabet_size, float p) of the object's class
SetComplexityCoef(alphabet_size, p) ==
    /\ status = "ok"
    /\ LET r == CASE kind = "bscore_base" ->
                        base_set_complexity_coef(alphabet_size, p)
                  [] kind = "discriminating_bscore" ->
                        discriminating_set_complexity_coef(alphabet_size, p, ctable_usize)
                  [] OTHER ->
                        precision_set_complexity_coef(alphabet_size, p, ctable_usize)
       IN  /\ complexity_coef' = r.coef
           /\ occam' = r.occam
    /\ call' = [op |-> "set_complexity_coef", args |-> <<alphabet_size, p>>,
                pre_occam |-> occam, ret |-> NoRet]
    /\ UNCHANGED <<kind, status, min_threshold, max_threshold, hardness, ctable_usize>>
    /\ UNCHANGED notCfg

\* set_complexity_coef(score_t ratio) of the object's class
SetComplexityCoefRatio(ratio) ==
    /\ status = "ok"
    /\ LET r == CASE kind = "bscore_base" ->
                        base_set_complexity_coef_ratio(ratio)
                  [] kind = "discriminating_bscore" ->
                        discriminating_set_complexity_coef_ratio(ratio, ctable_usize)
                  [] OTHER ->
                        precision_set_complexity_coef_ratio(ratio, ctable_usize)
       IN  /\ complexity_coef' = r.coef
           /\ occam' = r.occam
    /\ call' = [op |-> "set_complexity_coef_ratio", args |-> <<ratio>>,
                pre_occam |-> occam, ret |-> NoRet]
    /\ UNCHANGED <<kind, status, min_threshold, max_threshold, hardness, ctable_usize>>
    /\ UNCHANGED notCfg

\* the penalty of the object's class at one value
PenaltyAt(value) ==
    IF kind = "discriminating_bscore"
    THEN get_threshold_penalty(value, min_threshold, max_threshold, hardness)
    ELSE get_activation_penalty(value, min_threshold, max_threshold, hardness)

\* get_threshold_penalty(value) / get_activation_penalty(activation): const
GetPenalty(value) ==
    /\ status = "ok"
    /\ kind \in Bounded
    /\ call' = [op |-> "get_penalty", args |-> <<value>>,
                pre_occam |-> occam, ret |-> PenaltyAt(value)]
    /\ UNCHANGED <<kind, status, min_threshold, max_threshold, hardness,
                   ctable_usize, complexity_coef, occam>>
    /\ UNCHANGED notCfg

NextCfg ==
    \/ ConstructBase
    \/ Construct
    \/ \E a \in 0 .. MaxAlphabet, p \in Grid : SetComplexityCoef(a, p)
    \/ \E ratio \in Grid : SetComplexityCoefRatio(ratio)
    \/ \E value \in Grid : GetPenalty(value)


-----------------------------------------------------------------------------
(* Properties of the configured scorer.                                    *)

InOpenHalf(p) == XLt(Zero, p) /\ XLt(p, Half)
InUnit(v) == XLe(Zero, v) /\ XLe(v, One)

\* C1: after a discrete-form set_complexity_coef(alphabet_size, p) on any of
\* the three classes, occam is true exactly when 0 < p < 0.5, and then the
\* coefficient is finite and positive for alphabet_size >= 2; for every other
\* p the flag is false and complexity_coef is exactly 0, whatever was set
\* before the call.
C1_DiscreteOccam ==
    (status = "ok" /\ call.op = "set_complexity_coef") =>
        LET a == call.args[1]
            p == call.args[2]
        IN  /\ occam <=> InOpenHalf(p)
            /\ (InOpenHalf(p) /\ a >= 2) => CoefSign(complexity_coef) = "pos"
            /\ ~InOpenHalf(p) => (~occam /\ complexity_coef = CoefRat(Zero))

\* C1 witness: a call at the singular point p = 0.5 on a scorer whose Occam
\* penalty was enabled by an earlier call switches it off and zeroes the
\* coefficient.
C1_Witness ==
    /\ status = "ok" /\ call.op = "set_complexity_coef"
    /\ call.args[2] = Half /\ call.pre_occam
    /\ ~occam /\ complexity_coef = CoefRat(Zero)

\* C2: for a scorer with 0 < min <= max < 1 and a value in [0,1], the penalty
\* is exactly 0 inside [min, max] and strictly negative outside; dst lies in
\* [0,1] and is 1 only at value 0 or value 1; and a value further from the
\* band has a strictly more negative penalty than one nearer to it.
C2_ThresholdPenalty ==
    (status = "ok" /\ call.op = "get_penalty" /\ XLt(max_threshold, One)
       /\ InUnit(call.args[1])) =>
        LET v == call.args[1]
            r == call.ret
            inBand == XLe(min_threshold, v) /\ XLe(v, max_threshold)
        IN  /\ inBand => (PenSign(r) = "zero" /\ r.dst = Zero)
            /\ ~inBand => PenSign(r) \in {"neg", "ninf"}
            /\ InUnit(r.dst)
            /\ r.dst = One <=> (v = Zero \/ v = One)
            /\ \A w \in Grid :
                  /\ (XLt(v, w) /\ XLt(w, min_threshold)) => PenLt(r, PenaltyAt(w))
                  /\ (XLt(max_threshold, w) /\ XLt(w, v)) => PenLt(r, PenaltyAt(w))

\* C2 witness: a value strictly above the band but below 1 got a finite
\* strictly negative penalty.
C2_Witness ==
    /\ status = "ok" /\ call.op = "get_penalty" /\ XLt(max_threshold, One)
    /\ XLt(max_threshold, call.args[1]) /\ XLt(call.args[1], One)
    /\ PenSign(call.ret) = "neg"

\* The documented values of the coefficient
RatioFormula(ratio) == CoefRat(XDiv(One, ratio))
DiscreteFormula(a, p) == CoefDisc(a, p, 1)

\* C8 (as claimed): whenever set_complexity_coef enabled the Occam penalty,
\* complexity_coef is exactly 1/ratio (ratio form) or
\* -log(alphabet_size)/log(p/(1-p)) (discrete form), in every class and for
\* every table size.
C8_CoefIsFormula ==
    (status = "ok" /\ occam) =>
        /\ call.op = "set_complexity_coef_ratio" =>
              CoefEq(complexity_coef, RatioFormula(call.args[1]))
        /\ call.op = "set_complexity_coef" =>
              CoefEq(complexity_coef, DiscreteFormula(call.args[1], call.args[2]))

\* C8 (amended): bscore_base installs exactly the formula value;
\* discriminating_bscore and precision_bscore install the formula value
\* divided by the uncompressed table size: 1/(usize*ratio) and
\* -log(alphabet_size)/log(p/(1-p))/usize.
C8_CoefNormalized ==
    (status = "ok" /\ occam) =>
        LET norm(c) == IF kind = "bscore_base" THEN c
                       ELSE CoefDivInt(c, ctable_usize)
        IN  /\ call.op = "set_complexity_coef_ratio" =>
                  CoefEq(complexity_coef, norm(RatioFormula(call.args[1])))
            /\ call.op = "set_complexity_coef" =>
                  CoefEq(complexity_coef,
                         norm(DiscreteFormula(call.args[1], call.args[2])))

\* C8 witness: a precision scorer over a table of two observations was given
\* the ratio form and holds 1/(2*ratio), which differs from 1/ratio.
C8_Witness ==
    /\ status = "ok" /\ occam /\ kind = "precision_bscore" /\ ctable_usize = 2
    /\ call.op = "set_complexity_coef_ratio"
    /\ complexity_coef = CoefRat(XDiv(One, XMul(Rat(2, 1), call.args[1])))
    /\ ~CoefEq(complexity_coef, RatioFormula(call.args[1]))

-----------------------------------------------------------------------------
(* discretize_contin_bscore: sorted thresholds and the bucket lookup.      *)

RECURSIVE Insert(_, _)
Insert(s, x) ==
    IF s = <<>> THEN <<x>>
    ELSE IF x < Head(s) THEN <<x>> \o s
    ELSE <<Head(s)>> \o Insert(Tail(s), x)

\* boost::sort(thresholds)
RECURSIVE SortSeq(_)
SortSeq(s) == IF s = <<>> THEN <<>> ELSE Insert(SortSeq(Tail(s)), Head(s))

\* (mutant) a value equal to the middle threshold sent to the lower half
class_idx_within_step_le(thr, v, l, u) ==
    IF u - l = 1 THEN [done |-> TRUE, ret |-> l, l |-> l, u |-> u]
    ELSE LET m_idx == l + (u - l) \div 2
             t == thr[m_idx]
         IN  IF v <= t THEN [done |-> FALSE, ret |-> 0, l |-> l, u |-> m_idx]
             ELSE [done |-> FALSE, ret |-> 0, l |-> m_idx, u |-> u]

\* one frame of discretize_contin_bscore::class_idx_within(v, l_idx, u_idx):
\* the base case returns l_idx, the recursive case makes the tail call with
\* the new bounds (thresholds[m_idx - 1] of the code is thr[m_idx] here,
\* sequences being 1-based); size_t subtraction wraps, so u - l is taken
\* modulo 2^64 when l > u
class_idx_within_step(thr, v, l, u) ==
    IF u - l = 1 THEN [done |-> TRUE, ret |-> l, l |-> l, u |-> u]
    ELSE LET m_idx == l + (u - l) \div 2
             t == thr[m_idx]
         IN  IF v < t THEN [done |-> FALSE, ret |-> 0, l |-> l, u |-> m_idx]
             ELSE [done |-> FALSE, ret |-> 0, l |-> m_idx, u |-> u]

RECURSIVE class_idx_within(_, _, _, _)
class_idx_within(thr, v, l, u) ==
    LET r == class_idx_within_step(thr, v, l, u)
    IN  IF r.done THEN r.ret ELSE class_idx_within(thr, v, r.l, r.u)

\* size_t discretize_contin_bscore::class_idx(contin_t v) const
class_idx(thr, v) ==
    IF v < thr[1] THEN 0
    ELSE IF v >= thr[Len(thr)] THEN Len(thr)
    ELSE class_idx_within(thr, v, 1, Len(thr))

ThrVals == 1 .. MaxThr
OutVals == 0 .. MaxThr + 1
ThresholdLists == UNION {[1 .. n -> ThrVals] : n \in 1 .. MaxLen}
\* the target column: one or two rows
Targets == [1 .. 1 -> OutVals] \cup [1 .. 2 -> OutVals]

InitDisc ==
    /\ thresholds = <<>>
    /\ weighted_accuracy = FALSE
    /\ classes = <<>>
    /\ weights = <<>>
    /\ dc_pc = "none"
    /\ dc_v = 0
    /\ l_idx = 0
    /\ u_idx = 0
    /\ dc_depth = 0
    /\ dc_ret = 0

\* the constructor's body on a target column, a threshold list and the
\* weighted_accuracy flag
discretize_contin_bscore(target, thres, wa) ==
            /\ LET thr == SortSeq(thres)
                   cls == [i \in 1 .. Len(target) |-> class_idx(thr, target[i])]
                   nw == Len(thr) + 1
                   count(c) == Cardinality({i \in 1 .. Len(cls) : cls[i] = c})
               IN  /\ thresholds' = thr
                   /\ classes' = cls
                   /\ weights' = [i \in 1 .. nw |->
                                    IF wa THEN XDiv(Rat(Len(cls), 1), Rat(nw * count(i - 1), 1))
                                    ELSE One]
            /\ weighted_accuracy' = wa
            /\ dc_pc' = "idle"
            /\ UNCHANGED <<dc_v, l_idx, u_idx, dc_depth, dc_ret>>
            /\ UNCHANGED notDisc

\* discretize_contin_bscore::discretize_contin_bscore(ot, it, thres, wa)
ConstructDiscretize ==
    /\ dc_pc = "none"
    /\ \E target \in Targets, thres \in ThresholdLists, wa \in BOOLEAN :
            discretize_contin_bscore(target, thres, wa)

\* class_idx(v): the two range checks, then the first class_idx_within frame
ClassIdx(v) ==
    /\ dc_pc \in {"idle", "done"}
    /\ dc_v' = v
    /\ dc_depth' = 0
    /\ IF v < thresholds[1]
       THEN dc_pc' = "done" /\ dc_ret' = 0 /\ l_idx' = 0 /\ u_idx' = 0
       ELSE IF v >= thresholds[Len(thresholds)]
       THEN dc_pc' = "done" /\ dc_ret' = Len(thresholds) /\ l_idx' = 0 /\ u_idx' = 0
       ELSE dc_pc' = "within" /\ dc_ret' = 0 /\ l_idx' = 1 /\ u_idx' = Len(thresholds)
    /\ UNCHANGED <<thresholds, weighted_accuracy, classes, weights>>
    /\ UNCHANGED notDisc

\* one class_idx_within frame: return, or recurse with the narrowed bounds
ClassIdxWithin ==
    /\ dc_pc = "within"
    /\ LET r == class_idx_within_step(thresholds, dc_v, l_idx, u_idx)
       IN  IF r.done
           THEN dc_pc' = "done" /\ dc_ret' = r.ret /\ l_idx' = 0 /\ u_idx' = 0
                /\ dc_depth' = 0
           ELSE dc_pc' = "within" /\ dc_ret' = 0 /\ l_idx' = r.l /\ u_idx' = r.u
                /\ dc_depth' = dc_depth + 1
    /\ UNCHANGED <<thresholds, weighted_accuracy, classes, weights, dc_v>>
    /\ UNCHANGED notDisc

NextDisc ==
    \/ ConstructDiscretize
    \/ \E v \in OutVals : ClassIdx(v)
    \/ ClassIdxWithin

\* the linear-scan bucket index: the number of thresholds <= v
LinearScan(thr, v) == Cardinality({i \in 1 .. Len(thr) : thr[i] <= v})

\* C3: on the sorted, non-empty threshold list of a constructed scorer,
\* class_idx(v) terminates (every class_idx_within frame has l_idx < u_idx and
\* at most one frame per threshold is entered) and returns the number of
\* thresholds <= v: 0 below the first threshold, the threshold count at or
\* above the last, the upper bucket for a value equal to a threshold; and it
\* is non-decreasing in v.
C3_ClassIdxLinearScan ==
    /\ dc_pc = "within" =>
          (1 <= l_idx /\ l_idx < u_idx /\ u_idx <= Len(thresholds)
             /\ dc_depth < Len(thresholds))
    /\ dc_pc = "done" =>
          /\ dc_ret = LinearScan(thresholds, dc_v)
          /\ dc_v < thresholds[1] => dc_ret = 0
          /\ dc_v >= thresholds[Len(thresholds)] => dc_ret = Len(thresholds)
          /\ \A i \in 1 .. Len(thresholds) : dc_v = thresholds[i] => dc_ret >= i
          /\ \A w \in OutVals :
                /\ w <= dc_v => class_idx(thresholds, w) <= dc_ret
                /\ w >= dc_v => class_idx(thresholds, w) >= dc_ret

\* C3 witness: a value equal to a duplicated threshold, strictly inside the
\* list, was located by the binary search and fell in the upper bucket.
C3_Witness ==
    /\ dc_pc = "done" /\ Len(thresholds) >= 4
    /\ thresholds[2] = thresholds[3] /\ dc_v = thresholds[2]
    /\ thresholds[1] < dc_v /\ dc_v < thresholds[4]
    /\ dc_ret = 3

-----------------------------------------------------------------------------
(* discretize_contin_bscore::operator(): the candidate is given by the     *)
(* column OTable ct(tr, cit) of its outputs on the rows of the input table.*)

\* the threshold lists of the scorers scored: up to MaxScoreThr thresholds
ScoreThresholdLists == UNION {[1 .. n -> ThrVals] : n \in 1 .. MaxScoreThr}

ConstructDiscretizeScorer ==
    /\ dc_pc = "none"
    /\ \E target \in Targets, thres \in ScoreThresholdLists, wa \in BOOLEAN :
            discretize_contin_bscore(target, thres, wa)

\* (c_idx != this->class_idx(get_contin(v))) * this->weights[c_idx]
discretize_component(thr, wts, c_idx, v) ==
    IF c_idx # class_idx(thr, v) THEN wts[c_idx + 1] ELSE Zero

\* penalized_behavioral_score discretize_contin_bscore::operator()(tr), on
\* the column ct of the candidate's outputs
discretize_operator(ct, thr, cls, wts, oc, coef) ==
    [first |-> [i \in 1 .. Len(cls) |-> discretize_component(thr, wts, cls[i], ct[i])],
     second |-> IF oc THEN [cpx |-> ct, coef |-> coef] ELSE [cpx |-> <<>>, coef |-> CoefRat(Zero)]]

\* behavioral_score discretize_contin_bscore::best_possible_bscore()
discretize_best_possible(cls) == [i \in 1 .. Len(cls) |-> Zero]

DiscretizeOperator(ct) ==
    /\ dc_pc = "idle"
    /\ Len(ct) = Len(classes)
    /\ call' = [op |-> "operator()", args |-> <<ct>>, pre_occam |-> occam,
                ret |-> discretize_operator(ct, thresholds, classes, weights,
                                            occam, complexity_coef)]
    /\ UNCHANGED <<kind, status, min_threshold, max_threshold, hardness,
                   ctable_usize, complexity_coef, occam>>
    /\ UNCHANGED notCfg

NextDiscScore ==
    \/ ConstructDiscretizeScorer
    \/ \E ct \in Targets : DiscretizeOperator(ct)

DiscretizeScored == dc_pc = "idle" /\ call.op = "operator()"

\* C23: every row's component is 0 when the candidate's class equals the
\* target class and minus the target class's weight, strictly negative, when
\* it differs; so no component exceeds that of best_possible_bscore() (0).
C23_MisclassificationPenalized ==
    DiscretizeScored =>
        \A i \in 1 .. Len(classes) :
            LET r == call.ret.first[i]
                hit == class_idx(thresholds, call.args[1][i]) = classes[i]
            IN  /\ hit => r = Zero
                /\ ~hit => (r = XNeg(weights[classes[i] + 1]) /\ XLt(r, Zero))
                /\ XLe(r, discretize_best_possible(classes)[i])

-----------------------------------------------------------------------------
(* Compressed tables: a map from input vectors to counters of outputs.     *)

\* the input vectors of a table with two boolean inputs, in map order
InputSeq == << <<FALSE, FALSE>>, <<FALSE, TRUE>>, <<TRUE, FALSE>>, <<TRUE, TRUE>> >>

RECURSIVE Sum(_, _)
Sum(f, S) == IF S = {} THEN 0
             ELSE LET x == CHOOSE y \in S : TRUE IN f[x] + Sum(f, S \ {x})

\* Counter::total_count()
total_count(c) == Sum(c, DOMAIN c)

\* Counter::get(v): the count of v, 0 when v is not in the counter
get(c, v) == IF v \in DOMAIN c THEN c[v] ELSE 0

\* the counters over a set of output values: every value 0..MaxCount times,
\* at least one observation
Counters(Vals) == {c \in [Vals -> 0 .. MaxCount] : \E v \in Vals : c[v] > 0}

RECURSIVE SeqOfSet(_)
SeqOfSet(S) == IF S = {} THEN <<>>
               ELSE LET m == CHOOSE x \in S : \A y \in S : x <= y
                    IN  <<m>> \o SeqOfSet(S \ {m})

\* the tables of 1..maxRows rows whose counters are drawn from Ctrs
Tables(Ctrs, maxRows) ==
    UNION {
        { [i \in 1 .. Cardinality(S) |->
              [in |-> InputSeq[SeqOfSet(S)[i]], c |-> f[SeqOfSet(S)[i]]]] :
          f \in [S -> Ctrs] } :
        S \in {T \in SUBSET (1 .. Len(InputSeq)) : Cardinality(T) \in 1 .. maxRows} }

\* CTable::uncompressed_size()
RECURSIVE uncompressed_size(_)
uncompressed_size(ct) ==
    IF ct = <<>> THEN 0 ELSE total_count(Head(ct).c) + uncompressed_size(Tail(ct))

InitTab ==
    /\ ctable = <<>>
    /\ output_type = "none"
    /\ positive = FALSE
    /\ worst_norm = FALSE
    /\ max_output = NoVal

\* the score_t an unsigned difference a - b converts to: unsigned arithmetic
\* wraps modulo 2^32
UnsignedDiff(a, b) == IF a >= b THEN Rat(a - b, 1) ELSE Wrapped(a - b)

-----------------------------------------------------------------------------
(* enum_table_bscore                                                       *)

EnumVals == {"e1", "e2"}

\* a scorer constructed over a table (the constructor keeps a reference to
\* the table; complexity_coef and occam start disabled)
ConstructEnumTable ==
    /\ status = "none"
    /\ \E ct \in Tables(Counters(EnumVals), MaxRows) :
            /\ kind' = "enum_table_bscore"
            /\ status' = "ok"
            /\ ctable' = ct
            /\ output_type' = "enum"
            /\ ctable_usize' = uncompressed_size(ct)
            /\ complexity_coef' = CoefRat(Zero)
            /\ occam' = FALSE
            /\ call' = [op |-> "construct", args |-> <<>>, pre_occam |-> FALSE, ret |-> NoRet]
            /\ UNCHANGED <<min_threshold, max_threshold, hardness>>
            /\ UNCHANGED <<positive, worst_norm, max_output>>
            /\ UNCHANGED <<discVars, ipVars, enumVars, wrkVars, dscVars>>

\* the lambda of enum_table_bscore::best_possible_bscore for one counter:
\* most and c.total_count() are unsigned, so is their difference, which is
\* then converted to score_t
enum_best_possible_row(c) ==
    LET most == IF \E v \in DOMAIN c : c[v] > 0
                THEN CHOOSE m \in {c[v] : v \in DOMAIN c} :
                        \A v \in DOMAIN c : c[v] <= m
                ELSE 0
    IN  UnsignedDiff(most, total_count(c))

\* behavioral_score enum_table_bscore::best_possible_bscore() const
EnumBestPossible ==
    /\ status = "ok" /\ kind = "enum_table_bscore"
    /\ call' = [op |-> "best_possible_bscore", args |-> <<>>, pre_occam |-> occam,
                ret |-> [i \in 1 .. Len(ctable) |-> enum_best_possible_row(ctable[i].c)]]
    /\ UNCHANGED <<kind, status, min_threshold, max_threshold, hardness,
                   ctable_usize, complexity_coef, occam>>
    /\ UNCHANGED <<discVars, tabVars, ipVars, enumVars, wrkVars, dscVars>>

NextEnum ==
    \/ ConstructEnumTable
    \/ EnumBestPossible

MaxOf(c) == CHOOSE m \in {c[v] : v \in DOMAIN c} : \A v \in DOMAIN c : c[v] <= m

\* C4: every component of enum_table_bscore::best_possible_bscore() equals
\* (largest count of a single output value) - (total count of the row): zero
\* iff one output value accounts for the whole row, strictly negative
\* otherwise.
C4_EnumBestPossible ==
    (kind = "enum_table_bscore" /\ call.op = "best_possible_bscore") =>
        \A i \in 1 .. Len(ctable) :
            LET c == ctable[i].c
                r == call.ret[i]
            IN  /\ r = Rat(MaxOf(c) - total_count(c), 1)
                /\ r = Zero <=> (\E v \in DOMAIN c : c[v] = total_count(c))
                /\ r # Zero => XLt(r, Zero)

-----------------------------------------------------------------------------
(* precision_bscore: operator() and gen_canonical_best_candidate.          *)

\* the values of a continuous output column, and its counters (each value
\* observed at most once per row)
ContinVals == {-1, 2}
ContinCounters == {c \in [ContinVals -> 0 .. 1] : \E v \in ContinVals : c[v] > 0}
BoolCounters == {c \in [BOOLEAN -> 0 .. 1] : \E v \in BOOLEAN : c[v] > 0}

\* A candidate is a disjunction of conjunctions of literals: a sequence of
\* clauses, each a sequence of arguments, i for $i and -i for !$i.
\* eval_binding(vs, tr) of such a candidate on the input vector vs
eval_binding(vs, tr) ==
    \E k \in 1 .. Len(tr) :
        \A j \in 1 .. Len(tr[k]) :
            IF tr[k][j] > 0 THEN vs[tr[k][j]] ELSE ~vs[-tr[k][j]]

\* the number of arguments of the candidate
tree_complexity(tr) == Sum([k \in 1 .. Len(tr) |-> Len(tr[k])], 1 .. Len(tr))

\* the conjunction of gen_canonical_best_candidate for one input vector:
\* argument idx when input idx is true, -idx otherwise
clause_of(vs) == [idx \in 1 .. Len(vs) |-> IF vs[idx] THEN idx ELSE -idx]

\* the candidates a search can submit: for every set of at most two input
\* vectors, the disjunction of their conjunctions
Candidates ==
    {[k \in 1 .. Cardinality(S) |-> clause_of(InputSeq[SeqOfSet(S)[k]])] :
        S \in {T \in SUBSET (1 .. Len(InputSeq)) : Cardinality(T) <= 2}}

\* the sum_outputs lambda the constructor installs
sum_outputs(otype, pos, c) ==
    IF otype = "boolean" THEN Rat(get(c, pos), 1)
    ELSE LET res == Sum([v \in DOMAIN c |-> v * c[v]], DOMAIN c)
         IN  Rat(IF pos THEN res ELSE -res, 1)

\* max_output as the constructor computes it (the table is not empty, so the
\* initial worst_score is always replaced)
precision_max_output(otype, pos, ct) ==
    IF otype = "boolean" THEN One
    ELSE LET vals == UNION {{IF pos THEN v ELSE -v :
                              v \in {w \in DOMAIN ct[i].c : ct[i].c[w] > 0}} :
                            i \in 1 .. Len(ct)}
         IN  Rat(CHOOSE m \in vals : \A v \in vals : v <= m, 1)

\* std::multimap::insert: after the entries whose key is not greater
RECURSIVE multimap_insert(_, _)
multimap_insert(s, e) ==
    IF s = <<>> THEN <<e>>
    ELSE IF XLt(e.k, Head(s).k) THEN <<e>> \o s
    ELSE <<Head(s)>> \o multimap_insert(Tail(s), e)

\* the multimap after inserting entries[1..n] in this order
RECURSIVE multimap_of(_, _)
multimap_of(entries, n) ==
    IF n = 0 THEN <<>> ELSE multimap_insert(multimap_of(entries, n - 1), entries[n])

Reverse(s) == [i \in 1 .. Len(s) |-> s[Len(s) + 1 - i]]

\* the loop over worst_deciles of operator(): accumulate until worst_count
\* exceeds n_deciles
RECURSIVE worst_scan(_, _, _, _, _)
worst_scan(wd, i, worst_count, avg, n_deciles) ==
    IF i > Len(wd) THEN [worst_count |-> worst_count, avg |-> avg]
    ELSE LET wc == worst_count + wd[i].cnt
             a == XAdd(avg, wd[i].k)
         IN  IF wc > n_deciles THEN [worst_count |-> wc, avg |-> a]
             ELSE worst_scan(wd, i + 1, wc, a, n_deciles)

SumX(f, S) == Sum([x \in S |-> f[x].n], S)

\* (mutant) precision computed without the test for zero active observations
precision_of_unguarded(sao, active, maxo) ==
    XDiv(XDiv(sao, Rat(active, 1)), maxo)

\* the normalized precision of operator(): 1.0 without hits
precision_of(sao, active, maxo) ==
    IF 0 < active THEN XDiv(XDiv(sao, Rat(active, 1)), maxo) ELSE One

\* (mutant) a row is active when the candidate's value is the polarity
precision_active_rows_polar(tr, ct, pos) ==
    {i \in 1 .. Len(ct) : eval_binding(ct[i].in, tr) = pos}

\* the rows passing "eval_binding(vct.first, tr) == id::logical_true" in
\* the loop of operator()
precision_active_rows(tr, ct, pos) ==
    {i \in 1 .. Len(ct) : eval_binding(ct[i].in, tr)}

\* penalized_behavioral_score precision_bscore::operator()(tr): the score,
\* with the set of active rows, the active count and whether a division by
\* zero took place
precision_operator(tr, ct, otype, pos, wn, maxo, usize, mn, mx, pen, oc, coef) ==
    LET rows == precision_active_rows(tr, ct, pos)
        sumo == [i \in 1 .. Len(ct) |-> sum_outputs(otype, pos, ct[i].c)]
        sao == Rat(SumX(sumo, rows), 1)
        active == Sum([i \in 1 .. Len(ct) |-> total_count(ct[i].c)], rows)
        worst == [i \in 1 .. Len(ct) |-> [k |-> sumo[i], cnt |-> total_count(ct[i].c),
                                          on |-> wn /\ i \in rows /\ XLt(sumo[i], Zero)]]
        RECURSIVE deciles(_)
        deciles(n) == IF n = 0 THEN <<>>
                      ELSE IF worst[n].on THEN multimap_insert(deciles(n - 1), worst[n])
                      ELSE deciles(n - 1)
        worst_deciles == deciles(Len(ct))
        normalize == wn /\ XLt(Zero, sao)
        scan == worst_scan(worst_deciles, 1, 0, Zero, active \div 10)
        avg_worst_deciles == IF normalize THEN XDiv(scan.avg, Rat(scan.worst_count, 1))
                             ELSE Zero
        precision0 == precision_of(sao, active, maxo)
        precision == IF XLt(avg_worst_deciles, Zero)
                     THEN XDiv(precision0, XNeg(avg_worst_deciles)) ELSE precision0
        activation == XDiv(Rat(active, 1), Rat(usize, 1))
    IN  [first |-> <<precision, get_activation_penalty(activation, mn, mx, pen)>>,
         second |-> IF oc THEN [cpx |-> tree_complexity(tr), coef |-> coef]
                    ELSE [cpx |-> 0, coef |-> CoefRat(Zero)],
         rows |-> rows,
         active |-> active,
         activation |-> activation,
         divzero |-> \/ normalize /\ scan.worst_count = 0
                     \/ precision0 # One /\ active = 0
                     \/ precision0 # One /\ maxo = Zero]

\* the per-row precision both greedy scans sort by
row_precision(otype, pos, c) == XDiv(sum_outputs(otype, pos, c), Rat(total_count(c), 1))

\* the reverse_foreach loop of gen_canonical_best_candidate over the rows in
\* descending precision: the number of clauses emitted
RECURSIVE canonical_scan(_, _, _, _)
canonical_scan(ptc, i, active, limit) ==
    IF i > Len(ptc) THEN Len(ptc)
    ELSE IF XLe(limit, Rat(active + ptc[i].total, 1)) THEN i
    ELSE canonical_scan(ptc, i + 1, active + ptc[i].total, limit)

\* (mutant) the rows taken in ascending instead of descending precision
gen_canonical_ascending(ct, otype, pos, usize, mn) ==
    LET entries == [i \in 1 .. Len(ct) |->
                       [k |-> row_precision(otype, pos, ct[i].c), row |-> i,
                        total |-> total_count(ct[i].c)]]
        ptc == multimap_of(entries, Len(ct))
        n == canonical_scan(ptc, 1, 0, XMul(Rat(usize, 1), mn))
    IN  [tr |-> [k \in 1 .. n |-> clause_of(ct[ptc[k].row].in)],
         rows |-> {ptc[k].row : k \in 1 .. n}]

\* combo_tree precision_bscore::gen_canonical_best_candidate() const: the
\* candidate, with the set of rows whose clauses were emitted
gen_canonical_best_candidate(ct, otype, pos, usize, mn) ==
    LET entries == [i \in 1 .. Len(ct) |->
                       [k |-> row_precision(otype, pos, ct[i].c), row |-> i,
                        total |-> total_count(ct[i].c)]]
        ptc == Reverse(multimap_of(entries, Len(ct)))
        n == canonical_scan(ptc, 1, 0, XMul(Rat(usize, 1), mn))
    IN  [tr |-> [k \in 1 .. n |-> clause_of(ct[ptc[k].row].in)],
         rows |-> {ptc[k].row : k \in 1 .. n}]

\* behavioral_score precision_bscore::best_possible_bscore() const: the rows
\* in descending per-row precision, accumulated until min_activation is
\* reached
precision_best_possible(ct, otype, pos, maxo, usize, mn, mx, pen) ==
    LET entries == [i \in 1 .. Len(ct) |->
                       [k |-> row_precision(otype, pos, ct[i].c), row |-> i,
                        sumo |-> sum_outputs(otype, pos, ct[i].c),
                        total |-> total_count(ct[i].c)]]
        max_precisions == Reverse(multimap_of(entries, Len(ct)))
        n == canonical_scan(max_precisions, 1, 0, XMul(Rat(usize, 1), mn))
        sao == Rat(Sum([j \in 1 .. n |-> max_precisions[j].sumo.n], 1 .. n), 1)
        active == Sum([j \in 1 .. n |-> max_precisions[j].total], 1 .. n)
        precision == XDiv(XDiv(sao, Rat(active, 1)), maxo)
        activation == XDiv(Rat(active, 1), Rat(usize, 1))
    IN  <<precision, get_activation_penalty(activation, mn, mx, pen)>>

PrecMinActs == {Zero, Half, One}
PrecMaxActs == {One}

\* precision_bscore::precision_bscore(ctable, penalty, min_activation,
\* max_activation, positive, worst_norm)
ConstructPrecision ==
    /\ status = "none"
    /\ \E otype \in {"boolean", "contin"}, mn \in PrecMinActs, mx \in PrecMaxActs,
          pen \in {One}, pos \in BOOLEAN, wn \in BOOLEAN :
        \E ct \in Tables(IF otype = "boolean" THEN BoolCounters ELSE ContinCounters,
                         MaxPrecRows) :
            LET valid == precision_bscore_valid(mn, mx, pen)
            IN  /\ kind' = "precision_bscore"
                /\ status' = IF valid THEN "ok" ELSE "assert"
                /\ ctable' = IF valid THEN ct ELSE <<>>
                /\ output_type' = IF valid THEN otype ELSE "none"
                /\ ctable_usize' = IF valid THEN uncompressed_size(ct) ELSE 0
                /\ min_threshold' = IF valid THEN mn ELSE NoVal
                /\ max_threshold' = IF valid THEN mx ELSE NoVal
                /\ hardness' = IF valid THEN pen ELSE NoVal
                /\ positive' = (valid /\ pos)
                /\ worst_norm' = (valid /\ wn)
                /\ max_output' = IF valid THEN precision_max_output(otype, pos, ct) ELSE NoVal
                /\ complexity_coef' = CoefRat(Zero)
                /\ occam' = FALSE
                /\ call' = [op |-> "construct", args |-> <<mn, mx, pen>>,
                            pre_occam |-> FALSE, ret |-> NoRet]
                /\ UNCHANGED <<discVars, ipVars, enumVars, wrkVars, dscVars>>

\* precision_bscore::operator()(tr)
PrecisionOperator(tr) ==
    /\ status = "ok" /\ kind = "precision_bscore" /\ ctable # <<>>
    /\ call' = [op |-> "operator()", args |-> <<tr>>, pre_occam |-> occam,
                ret |-> precision_operator(tr, ctable, output_type, positive,
                                           worst_norm, max_output, ctable_usize,
                                           min_threshold, max_threshold, hardness,
                                           occam, complexity_coef)]
    /\ UNCHANGED <<kind, status, min_threshold, max_threshold, hardness,
                   ctable_usize, complexity_coef, occam>>
    /\ UNCHANGED <<discVars, tabVars, ipVars, enumVars, wrkVars, dscVars>>

\* precision_bscore::gen_canonical_best_candidate()
GenCanonicalBestCandidate ==
    /\ status = "ok" /\ kind = "precision_bscore" /\ ctable # <<>>
    /\ call' = [op |-> "gen_canonical_best_candidate", args |-> <<>>,
                pre_occam |-> occam,
                ret |-> gen_canonical_best_candidate(ctable, output_type, positive,
                                                     ctable_usize, min_threshold)]
    /\ UNCHANGED <<kind, status, min_threshold, max_threshold, hardness,
                   ctable_usize, complexity_coef, occam>>
    /\ UNCHANGED <<discVars, tabVars, ipVars, enumVars, wrkVars, dscVars>>

\* precision_bscore::best_possible_bscore()
PrecisionBestPossible ==
    /\ status = "ok" /\ kind = "precision_bscore" /\ ctable # <<>>
    /\ call' = [op |-> "best_possible_bscore", args |-> <<>>, pre_occam |-> occam,
                ret |-> precision_best_possible(ctable, output_type, positive,
                                                max_output, ctable_usize,
                                                min_threshold, max_threshold,
                                                hardness)]
    /\ UNCHANGED <<kind, status, min_threshold, max_threshold, hardness,
                   ctable_usize, complexity_coef, occam>>
    /\ UNCHANGED <<discVars, tabVars, ipVars, enumVars, wrkVars, dscVars>>

\* the candidate just synthesized handed to operator()
ScoreCanonical ==
    /\ call.op = "gen_canonical_best_candidate"
    /\ PrecisionOperator(call.ret.tr)

NextPrec ==
    \/ ConstructPrecision
    \/ \E tr \in Candidates : PrecisionOperator(tr)
    \/ GenCanonicalBestCandidate
    \/ ScoreCanonical
    \/ PrecisionBestPossible

\* a call of precision_bscore::operator() has returned
PrecisionScored == kind = "precision_bscore" /\ call.op = "operator()"

\* C5: when the candidate is active on no row of the table, operator()
\* returns precision exactly 1.0, whatever worst_norm and positive are, and
\* divides by no zero.
C5_ZeroActivePrecision ==
    (PrecisionScored /\ call.ret.rows = {}) =>
        /\ call.ret.active = 0
        /\ call.ret.first[1] = One
        /\ ~call.ret.divzero

\* a candidate without hits scored with worst_norm on and positive off
C5_Witness ==
    /\ PrecisionScored
    /\ call.ret.rows = {}
    /\ worst_norm /\ ~positive
    /\ call.ret.first[1] = One

\* the candidate synthesized for the current table
Canonical ==
    gen_canonical_best_candidate(ctable, output_type, positive, ctable_usize,
                                 min_threshold)

\* operator() has scored the synthesized candidate of a scorer with
\* min_activation in (0,1] (max_activation is 1) and worst_norm off
CanonicalScored ==
    /\ PrecisionScored
    /\ ~worst_norm
    /\ call.args[1] = Canonical.tr

\* the rows left out of the clause set
Excluded == (1 .. Len(ctable)) \ Canonical.rows

\* the first two parts of C7: active on exactly the emitted rows, and the
\* activation reaches min_activation
CanonicalActive ==
    /\ call.ret.rows = Canonical.rows
    /\ XLe(min_threshold, call.ret.activation)

RowsWhere(v) == {i \in 1 .. Len(ctable) : eval_binding(ctable[i].in, call.args[1]) = v}

\* the observations of a set of rows
Observations(rows) == Sum([i \in 1 .. Len(ctable) |-> total_count(ctable[i].c)], rows)

\* C18 as stated: a row is counted as active iff the candidate's truth value
\* on it matches the polarity: true when positive is set, false when not.
C18_ActiveMatchesPolarity ==
    PrecisionScored =>
        /\ call.ret.rows = RowsWhere(positive)
        /\ call.ret.active = Observations(RowsWhere(positive))

\* C18, amended: a row is counted as active iff the candidate evaluates to
\* true on it, whatever the polarity; positive only selects which outputs
\* sum_outputs adds up for the active rows.
C18_ActiveWhereTrue ==
    PrecisionScored =>
        /\ call.ret.rows = RowsWhere(TRUE)
        /\ call.ret.active = Observations(RowsWhere(TRUE))
        /\ call.ret.activation = XDiv(Rat(Observations(RowsWhere(TRUE)), 1),
                                      Rat(ctable_usize, 1))

\* a negative-polarity scorer has scored a candidate that is true on some
\* rows and false on others, the two groups holding different counts
C18_Witness ==
    /\ PrecisionScored /\ ~positive
    /\ RowsWhere(TRUE) # {} /\ RowsWhere(FALSE) # {}
    /\ Observations(RowsWhere(TRUE)) # Observations(RowsWhere(FALSE))
    /\ call.ret.active = Observations(RowsWhere(TRUE))

-----------------------------------------------------------------------------
(* precision_bscore on boolean tables of up to MaxBoundRows rows:          *)
(* best_possible_bscore() against the candidates' scores.                  *)

\* the rows of the boolean tables: two hits, one miss, two misses, one hit
\* among three observations
BoundCounters ==
    {[b \in BOOLEAN |-> IF b THEN 2 ELSE 0], [b \in BOOLEAN |-> IF b THEN 0 ELSE 1],
     [b \in BOOLEAN |-> IF b THEN 0 ELSE 2], [b \in BOOLEAN |-> IF b THEN 1 ELSE 2]}

\* precision_bscore::precision_bscore over a boolean table, with
\* min_activation 1/2, max_activation 1, penalty 1, positive, worst_norm off
ConstructPrecisionBoolean ==
    /\ status = "none"
    /\ \E ct \in Tables(BoundCounters, MaxBoundRows) :
            /\ kind' = "precision_bscore"
            /\ status' = IF precision_bscore_valid(Half, One, One) THEN "ok" ELSE "assert"
            /\ ctable' = ct
            /\ output_type' = "boolean"
            /\ ctable_usize' = uncompressed_size(ct)
            /\ min_threshold' = Half
            /\ max_threshold' = One
            /\ hardness' = One
            /\ positive' = TRUE
            /\ worst_norm' = FALSE
            /\ max_output' = precision_max_output("boolean", TRUE, ct)
            /\ complexity_coef' = CoefRat(Zero)
            /\ occam' = FALSE
            /\ call' = [op |-> "construct", args |-> <<Half, One, One>>,
                        pre_occam |-> FALSE, ret |-> NoRet]
            /\ UNCHANGED <<discVars, ipVars, enumVars, wrkVars, dscVars>>

NextPrecBound ==
    \/ ConstructPrecisionBoolean
    \/ \E tr \in Candidates : PrecisionOperator(tr)
    \/ PrecisionBestPossible

\* C13: on a boolean table with worst_norm off, the precision operator()
\* returns for a candidate whose activation lies within
\* [min_activation, max_activation] is at most the precision
\* best_possible_bscore() returns.
C13_BestPossibleIsUpperBound ==
    (/\ PrecisionScored
     /\ output_type = "boolean" /\ ~worst_norm
     /\ XLe(min_threshold, call.ret.activation)
     /\ XLe(call.ret.activation, max_threshold)) =>
        XLe(call.ret.first[1],
            precision_best_possible(ctable, output_type, positive, max_output,
                                    ctable_usize, min_threshold, max_threshold,
                                    hardness)[1])

-----------------------------------------------------------------------------
(* interesting_predicate_bscore: construction and operator().              *)

\* the sentinel pushed for a degenerate candidate
worst_score == [t |-> "worst_score", n |-> 0, d |-> 1]

\* a histogram is a function from the values observed to their counts
EmptyCounter == [v \in {} |-> 0]

Present(c) == {v \in DOMAIN c : c[v] > 0}

\* counter[get_contin(v.first)] += v.second over every entry of every row
ip_counter(ct) ==
    LET vals == UNION {Present(ct[i].c) : i \in 1 .. Len(ct)}
    IN  [v \in vals |->
            Sum([i \in 1 .. Len(ct) |-> get(ct[i].c, v)], 1 .. Len(ct))]

\* the rows on which the predicate's output is the target
ip_active_rows(tr, ct, pos) ==
    {i \in 1 .. Len(ct) : eval_binding(ct[i].in, tr) = pos}

\* pred_counter[get_contin(mv.first)] = mv.second over the entries of the
\* active rows, in table order: the count of the last active row holding
\* the value
ip_pred_counter(ct, rows) ==
    LET vals == UNION {Present(ct[i].c) : i \in rows}
    IN  [v \in vals |->
            LET last == CHOOSE i \in rows :
                            /\ v \in Present(ct[i].c)
                            /\ \A j \in rows : v \in Present(ct[j].c) => j <= i
            IN  ct[last].c[v]]

\* std::max
XMax(a, b) == IF XLt(a, b) THEN b ELSE a

\* score_t interesting_predicate_bscore::get_activation_penalty(activation)
ip_get_activation_penalty(activation, mn, mx, pen) ==
    LET dst == XMax(XDiv(XMax(XSub(mn, activation), Zero), mn),
                    XDiv(XMax(XSub(activation, mx), Zero), XSub(One, mx)))
    IN  Penalty(dst, pen)

\* (mutant) the statistics are computed as soon as one value is active
ip_has_statistics_nonempty(pred_counter) == Cardinality(DOMAIN pred_counter) > 0

\* pred_counter.size() > 1
ip_has_statistics(pred_counter) == Cardinality(DOMAIN pred_counter) > 1

\* the components operator() appends when the statistics are computed, each
\* by the quantity it is the weight's multiple of
ip_components(pred_counter, ctr, skew, kw, sw, uw, suw, absk, dkld, pen) ==
    LET kld == IF kw > 0
               THEN <<[c |-> IF dkld THEN "klds" ELSE "kld", w |-> kw,
                       of |-> pred_counter]>>
               ELSE <<>>
        stats == sw > 0 \/ uw > 0 \/ suw > 0
        skw == IF stats /\ sw > 0
               THEN <<[c |-> IF absk THEN "abs_diff_skewness" ELSE "diff_skewness",
                       w |-> sw, of |-> pred_counter, from |-> skew]>>
               ELSE <<>>
        stdU == IF stats /\ uw > 0
                THEN <<[c |-> "abs_stdU", w |-> uw, of |-> pred_counter,
                        from |-> ctr]>>
                ELSE <<>>
        skewU == IF stats /\ suw > 0
                 THEN <<[c |-> "stdU_diff_skewness", w |-> suw,
                         of |-> pred_counter, from |-> ctr]>>
                 ELSE <<>>
    IN  kld \o skw \o stdU \o skewU \o <<[c |-> "activation_penalty", p |-> pen]>>

\* penalized_behavioral_score interesting_predicate_bscore::operator()(tr)
ip_operator(tr, ct, pos, ctr, skew, kw, sw, uw, suw, absk, dkld, mn, mx, pen, oc, coef) ==
    LET rows == ip_active_rows(tr, ct, pos)
        total == Sum([i \in 1 .. Len(ct) |-> total_count(ct[i].c)], 1 .. Len(ct))
        actives == Sum([i \in 1 .. Len(ct) |-> total_count(ct[i].c)], rows)
        pred_counter == ip_pred_counter(ct, rows)
        full == ip_has_statistics(pred_counter)
        activation == XDiv(Rat(actives, 1), Rat(total, 1))
    IN  [first |-> IF full
                   THEN ip_components(pred_counter, ctr, skew, kw, sw, uw, suw,
                                      absk, dkld,
                                      ip_get_activation_penalty(activation, mn, mx, pen))
                   ELSE <<worst_score>>,
         second |-> IF full /\ oc THEN [cpx |-> tree_complexity(tr), coef |-> coef]
                    ELSE [cpx |-> 0, coef |-> CoefRat(Zero)],
         pred_counter |-> pred_counter,
         actives |-> actives]

InitIP ==
    /\ kld_w = 0 /\ skewness_w = 0 /\ stdU_w = 0 /\ skew_U_w = 0
    /\ abs_skewness = FALSE /\ decompose_kld = FALSE
    /\ counter = EmptyCounter
    /\ pdf = EmptyCounter
    /\ skewness = [of |-> EmptyCounter]

Weights == {0, 1}

\* the candidates submitted to the predicate scorer: a constant or the
\* conjunction of one input vector
IPCandidates == {tr \in Candidates : Len(tr) <= 1}

\* the activation bounds and penalty handed to the constructor
\* <<min_activation, max_activation, penalty>>: a sane configuration, a zero
\* minimum, a minimum above the maximum and a zero penalty
IPConfigs == {<<Half, One, One>>, <<Zero, One, One>>, <<One, Half, One>>,
              <<Half, One, Zero>>}

\* interesting_predicate_bscore::interesting_predicate_bscore(ctable, kld_w,
\* skewness_w, stdU_w, skew_U_w, min_activation, max_activation, penalty,
\* positive, abs_skewness, decompose_kld)
interesting_predicate_bscore(ct, kw, sw, uw, suw, cfg, pos, absk, dkld) ==
            /\ kind' = "interesting_predicate_bscore"
            /\ status' = "ok"
            /\ ctable' = ct
            /\ output_type' = "contin"
            /\ kld_w' = kw /\ skewness_w' = sw /\ stdU_w' = uw /\ skew_U_w' = suw
            /\ abs_skewness' = absk /\ decompose_kld' = dkld
            /\ min_threshold' = cfg[1] /\ max_threshold' = cfg[2] /\ hardness' = cfg[3]
            /\ positive' = pos
            /\ counter' = ip_counter(ct)
            /\ pdf' = IF kw > 0 THEN ip_counter(ct) ELSE EmptyCounter
            /\ skewness' = [of |-> IF kw > 0 THEN ip_counter(ct) ELSE EmptyCounter]
            /\ complexity_coef' = CoefRat(Zero)
            /\ occam' = FALSE
            /\ call' = [op |-> "construct", args |-> <<>>, pre_occam |-> FALSE, ret |-> NoRet]
            /\ UNCHANGED <<ctable_usize, worst_norm, max_output>>
            /\ UNCHANGED <<discVars, enumVars, wrkVars, dscVars>>

\* the constructor on the tables of up to MaxIPRows rows, for every
\* combination of weights and flags
ConstructInteresting ==
    /\ status = "none"
    /\ \E ct \in Tables(ContinCounters, MaxIPRows),
          kw \in Weights, sw \in Weights, uw \in Weights, suw \in Weights,
          cfg \in IPConfigs,
          pos \in BOOLEAN, absk \in BOOLEAN, dkld \in BOOLEAN :
            interesting_predicate_bscore(ct, kw, sw, uw, suw, cfg, pos, absk, dkld)

\* the constructor on the tables of up to MaxHistRows rows, with the KLD and
\* skewness signals on
ConstructInterestingRows ==
    /\ status = "none"
    /\ \E ct \in Tables(ContinCounters, MaxHistRows), pos \in BOOLEAN :
            interesting_predicate_bscore(ct, 1, 1, 0, 0, <<Half, One, One>>, pos,
                                         FALSE, FALSE)

\* interesting_predicate_bscore::operator()(tr)
InterestingOperator(tr) ==
    /\ status = "ok" /\ kind = "interesting_predicate_bscore"
    /\ call' = [op |-> "operator()", args |-> <<tr>>, pre_occam |-> occam,
                ret |-> ip_operator(tr, ctable, positive, counter, skewness,
                                    kld_w, skewness_w, stdU_w, skew_U_w,
                                    abs_skewness, decompose_kld, min_threshold,
                                    max_threshold, hardness, occam,
                                    complexity_coef)]
    /\ UNCHANGED <<kind, status, min_threshold, max_threshold, hardness,
                   ctable_usize, complexity_coef, occam>>
    /\ UNCHANGED <<discVars, tabVars, ipVars, enumVars, wrkVars, dscVars>>

NextIP ==
    \/ ConstructInteresting
    \/ \E tr \in IPCandidates : InterestingOperator(tr)

NextIPRows ==
    \/ ConstructInterestingRows
    \/ \E tr \in Candidates : InterestingOperator(tr)

\* C11: an interesting_predicate_bscore is never constructed with
\* penalty <= 0, min_activation <= 0 or min_activation > max_activation: such
\* a construction ends in a fatal assertion, so every constructed scorer has
\* 0 < penalty and 0 < min_activation <= max_activation.
C11_InterestingValidated ==
    (kind = "interesting_predicate_bscore" /\ status = "ok") =>
        /\ XLt(Zero, hardness)
        /\ XLt(Zero, min_threshold)
        /\ XLe(min_threshold, max_threshold)

\* the distinct output values observed in the rows where the candidate's
\* output is the target
ActiveValues ==
    UNION {Present(ctable[i].c) :
           i \in {j \in 1 .. Len(ctable) :
                     eval_binding(ctable[j].in, call.args[1]) = positive}}

InterestingScored ==
    kind = "interesting_predicate_bscore" /\ call.op = "operator()"

\* C6: when the active rows of the candidate hold fewer than two distinct
\* output values, operator() returns a behavioural score of exactly one
\* component, worst_score, for every combination of the weights and flags.
C6_DegenerateIsWorstScore ==
    (InterestingScored /\ Cardinality(ActiveValues) < 2) =>
        call.ret.first = <<worst_score>>

\* a candidate with exactly one active value scored with every signal on
C6_Witness ==
    /\ InterestingScored
    /\ Cardinality(ActiveValues) = 1
    /\ kld_w > 0 /\ skewness_w > 0 /\ stdU_w > 0 /\ skew_U_w > 0
    /\ decompose_kld /\ abs_skewness
    /\ call.ret.first = <<worst_score>>

\* the rows where the scored candidate's output is the target
ActiveRows ==
    {j \in 1 .. Len(ctable) : eval_binding(ctable[j].in, call.args[1]) = positive}

\* the occurrences of v in the active rows
ActiveCount(v) == Sum([i \in 1 .. Len(ctable) |-> get(ctable[i].c, v)], ActiveRows)

\* C26: the active-conditioned histogram is count-weighted like the
\* unconditioned one: the conditioned count of every value is the sum of its
\* counts over the active rows, so the counts sum to the number of active
\* observations, and a candidate active on every row gets the unconditioned
\* histogram.
C26_ConditionedHistogram ==
    InterestingScored =>
        LET pred_counter == call.ret.pred_counter
        IN  /\ DOMAIN pred_counter = ActiveValues
            /\ \A v \in DOMAIN pred_counter : pred_counter[v] = ActiveCount(v)
            /\ Sum(pred_counter, DOMAIN pred_counter) = call.ret.actives
            /\ ActiveRows = 1 .. Len(ctable) => pred_counter = counter

\* C27: for every weight configuration, the samples fed to the skewness
\* accumulator by the constructor are the unconditioned counter: the full
\* count-weighted histogram of the table's outputs, also when kld_w is 0.
C27_SkewnessOfCounter ==
    (kind = "interesting_predicate_bscore" /\ status = "ok") =>
        /\ counter = ip_counter(ctable)
        /\ skewness.of = counter

-----------------------------------------------------------------------------
(* The enum scorers: enum_table_bscore, enum_filter_bscore,                *)
(* enum_graded_bscore and enum_effective_bscore scoring a candidate.       *)

EnumKinds == {"enum_table_bscore", "enum_filter_bscore", "enum_graded_bscore",
              "enum_effective_bscore"}

\* the rows scored: a pure row, a tie, a row with a dominant and a minority
\* output, and a pure row of the other value
ScoreCounters ==
    {[e1 |-> 1, e2 |-> 0], [e1 |-> 1, e2 |-> 1], [e1 |-> 2, e2 |-> 1],
     [e1 |-> 0, e2 |-> 2]}

\* An enum candidate is cond(p1 c1 ... pn cn default): the branches in program
\* order and the else constant; a bare enum constant has no branch.
EnumPreds == { << <<1>> >>, << <<2>> >> }

EnumCandidates ==
    {[branches |-> <<>>, else |-> e] : e \in EnumVals}
    \cup {[branches |-> <<[p |-> p1, c |-> c1]>>, else |-> e] :
             p1 \in EnumPreds, c1 \in EnumVals, e \in EnumVals}
    \cup {[branches |-> <<[p |-> b[1], c |-> c1], [p |-> b[2], c |-> c2]>>, else |-> e] :
             b \in {x \in EnumPreds \X EnumPreds : x[1] # x[2]},
             c1 \in EnumVals, c2 \in EnumVals, e \in EnumVals}

\* is_enum_type(*tr.begin()): the candidate is a bare constant
is_enum_constant(tr) == tr.branches = <<>>

\* the index of the first branch whose predicate is true on vs, or the number
\* of branches plus one when none is
RECURSIVE first_true(_, _, _)
first_true(vs, tr, k) ==
    IF k > Len(tr.branches) THEN k
    ELSE IF eval_binding(vs, tr.branches[k].p) THEN k
    ELSE first_true(vs, tr, k + 1)

\* the consequent of branch k, the else constant past the last branch
consequent_at(tr, k) == IF k > Len(tr.branches) THEN tr.else ELSE tr.branches[k].c

\* eval_binding(vs, tr) of a cond: the consequent of the first true predicate
eval_cond(vs, tr) == consequent_at(tr, first_true(vs, tr, 1))

\* the scalar penalty: a weighted sum of subtree complexities times the
\* coefficient, or 0.0
NoPenalty == [cpx |-> <<>>, coef |-> CoefRat(Zero)]
occam_penalty(oc, terms, coef) == IF oc THEN [cpx |-> terms, coef |-> coef] ELSE NoPenalty

\* tree_complexity(tr) * complexity_coef
tree_penalty(oc, tr, coef) == occam_penalty(oc, <<[w |-> One, of |-> tr]>>, coef)

\* (mutant) the difference taken in the unsigned count type
enum_table_row_unsigned(c, v) == UnsignedDiff(get(c, v), total_count(c))

\* score_t(c.get(v)) - score_t(c.total_count())
enum_table_row(c, v) == XSub(Rat(get(c, v), 1), Rat(total_count(c), 1))

\* penalized_behavioral_score enum_table_bscore::operator()(tr)
enum_table_operator(tr, ct, oc, coef) ==
    [first |-> [i \in 1 .. Len(ct) |-> enum_table_row(ct[i].c, eval_cond(ct[i].in, tr))],
     second |-> tree_penalty(oc, tr, coef)]

\* penalized_behavioral_score enum_filter_bscore::operator()(tr): the table
\* score, minus punish * total where the first predicate is true and the row
\* holds an observation that is not its consequent
enum_filter_operator(tr, ct, pun, oc, coef) ==
    IF is_enum_constant(tr) THEN enum_table_operator(tr, ct, oc, coef)
    ELSE [first |-> [i \in 1 .. Len(ct) |->
                        LET c == ct[i].c
                            total == total_count(c)
                            sc == enum_table_row(c, eval_cond(ct[i].in, tr))
                        IN  IF /\ eval_binding(ct[i].in, tr.branches[1].p)
                               /\ total # get(c, tr.branches[1].c)
                            THEN XSub(sc, XMul(pun, Rat(total, 1)))
                            ELSE sc],
          second |-> tree_penalty(oc, tr, coef)]

\* weight after n times "weight *= grading", from 1.0
RECURSIVE weight_times(_, _)
weight_times(gr, n) == IF n = 0 THEN One ELSE XMul(weight_times(gr, n - 1), gr)

\* weight after n times "weight /= grading", from 1.0
RECURSIVE weight_over(_, _)
weight_over(gr, n) == IF n = 0 THEN One ELSE XDiv(weight_over(gr, n - 1), gr)

\* (mutant) the complexity weights decaying like the score weights
graded_complexity_decaying(tr, gr) ==
    [k \in 1 .. Len(tr.branches) + 1 |->
        [w |-> weight_times(gr, k - 1),
         of |-> IF k > Len(tr.branches) THEN tr.else ELSE tr.branches[k].p]]

\* score_t enum_graded_bscore::graded_complexity(it): the terms
\* weight * tree_complexity(predicate) summed over the predicates and the
\* else clause
graded_complexity(tr, gr) ==
    [k \in 1 .. Len(tr.branches) + 1 |->
        [w |-> weight_over(gr, k - 1),
         of |-> IF k > Len(tr.branches) THEN tr.else ELSE tr.branches[k].p]]

\* (mutant) the last true predicate scores the row
graded_branch_last(vs, tr) ==
    LET hits == {k \in 1 .. Len(tr.branches) : eval_binding(vs, tr.branches[k].p)}
    IN  IF hits = {} THEN Len(tr.branches) + 1
        ELSE CHOOSE k \in hits : \A j \in hits : j <= k

\* the branch at which the while loop of enum_graded_bscore::operator() breaks
graded_branch(vs, tr) == first_true(vs, tr, 1)

\* the component of one row in enum_graded_bscore::operator()
enum_graded_row(tr, vs, c, gr) ==
    LET k == graded_branch(vs, tr)
        sc == XAdd(XNeg(Rat(total_count(c), 1)), Rat(get(c, consequent_at(tr, k)), 1))
    IN  XMul(sc, weight_times(gr, k - 1))

\* penalized_behavioral_score enum_graded_bscore::operator()(tr)
enum_graded_operator(tr, ct, gr, oc, coef) ==
    IF is_enum_constant(tr) THEN enum_table_operator(tr, ct, oc, coef)
    ELSE [first |-> [i \in 1 .. Len(ct) |-> enum_graded_row(tr, ct[i].in, ct[i].c, gr)],
          second |-> occam_penalty(oc, graded_complexity(tr, gr), coef)]

\* (mutant) the done mask ignored: every row is open to every branch
effective_unresolved_all(ct, done) == 1 .. Len(ct)

\* the rows with "*dit == false"
effective_unresolved(ct, done) == (1 .. Len(ct)) \ done

\* (mutant) the weight decays after every branch
effective_weight_always(weight, gr, effective) == XMul(weight, gr)

\* "if (effective) weight *= grading"
effective_weight(weight, gr, effective) == IF effective THEN XMul(weight, gr) ELSE weight

\* the passes of enum_effective_bscore::operator() from branch k on: done is
\* the set of rows already resolved, scores the vector accumulated so far
RECURSIVE effective_pass(_, _, _, _, _, _, _)
effective_pass(tr, ct, gr, k, done, weight, scores) ==
    IF k > Len(tr.branches)
    THEN [i \in 1 .. Len(scores) |->
             IF i \in effective_unresolved(ct, done)
             THEN XAdd(scores[i],
                       XMul(weight, Rat(get(ct[i].c, tr.else) - total_count(ct[i].c), 1)))
             ELSE scores[i]]
    ELSE LET consequent == tr.branches[k].c
             hit == {i \in effective_unresolved(ct, done) :
                        eval_binding(ct[i].in, tr.branches[k].p)}
             effective == \E i \in hit : get(ct[i].c, consequent) # 0
             next == [i \in 1 .. Len(scores) |->
                         IF i \in hit
                         THEN XAdd(scores[i],
                                   XMul(weight, Rat(get(ct[i].c, consequent)
                                                    - total_count(ct[i].c), 1)))
                         ELSE scores[i]]
         IN  effective_pass(tr, ct, gr, k + 1, done \cup hit,
                            effective_weight(weight, gr, effective), next)

\* behavioral_score(_ctable_usize): the length of the vector returned
effective_score_size(ct, usize) == usize

\* penalized_behavioral_score enum_effective_bscore::operator()(tr)
enum_effective_operator(tr, ct, usize, gr, oc, coef) ==
    LET n == effective_score_size(ct, usize)
    IN  IF is_enum_constant(tr)
        THEN [first |-> [i \in 1 .. n |->
                            IF i <= Len(ct)
                            THEN XSub(Rat(get(ct[i].c, tr.else), 1),
                                      Rat(total_count(ct[i].c), 1))
                            ELSE Zero],
              second |-> NoPenalty]
        ELSE [first |-> effective_pass(tr, ct, gr, 1, {}, One, [i \in 1 .. n |-> Zero]),
              second |-> occam_penalty(oc, graded_complexity(tr, gr), coef)]

InitEnum ==
    /\ punish = NoVal
    /\ grading = NoVal

\* construction of one of the enum scorers over a table: the table is kept,
\* with its uncompressed size, and the scorer's punish or grading
ConstructEnumScorer ==
    /\ status = "none"
    /\ \E k \in EnumKinds, ct \in Tables(ScoreCounters, MaxScoreRows) :
            /\ kind' = k
            /\ status' = "ok"
            /\ ctable' = ct
            /\ output_type' = "enum"
            /\ ctable_usize' = uncompressed_size(ct)
            /\ punish' = IF k = "enum_filter_bscore" THEN One ELSE NoVal
            /\ grading' = IF k \in {"enum_graded_bscore", "enum_effective_bscore"}
                          THEN Half ELSE NoVal
            /\ complexity_coef' = CoefRat(Zero)
            /\ occam' = FALSE
            /\ call' = [op |-> "construct", args |-> <<>>, pre_occam |-> FALSE, ret |-> NoRet]
            /\ UNCHANGED <<min_threshold, max_threshold, hardness>>
            /\ UNCHANGED <<positive, worst_norm, max_output>>
            /\ UNCHANGED <<discVars, ipVars, wrkVars, dscVars>>

\* bscore_base::set_complexity_coef(score_t complexity_ratio), inherited by
\* the enum scorers
EnumSetComplexityCoef(ratio) ==
    /\ status = "ok" /\ kind \in EnumKinds
    /\ complexity_coef' = base_set_complexity_coef_ratio(ratio).coef
    /\ occam' = base_set_complexity_coef_ratio(ratio).occam
    /\ call' = [op |-> "set_complexity_coef_ratio", args |-> <<ratio>>,
                pre_occam |-> occam, ret |-> NoRet]
    /\ UNCHANGED <<kind, status, min_threshold, max_threshold, hardness, ctable_usize>>
    /\ UNCHANGED notCfg

\* operator()(tr) of the scorer's class
EnumOperator(tr) ==
    /\ status = "ok" /\ kind \in EnumKinds
    /\ call' = [op |-> "operator()", args |-> <<tr>>, pre_occam |-> occam,
                ret |-> CASE kind = "enum_table_bscore" ->
                                enum_table_operator(tr, ctable, occam, complexity_coef)
                          [] kind = "enum_filter_bscore" ->
                                enum_filter_operator(tr, ctable, punish, occam,
                                                     complexity_coef)
                          [] kind = "enum_graded_bscore" ->
                                enum_graded_operator(tr, ctable, grading, occam,
                                                     complexity_coef)
                          [] OTHER ->
                                enum_effective_operator(tr, ctable, ctable_usize,
                                                        grading, occam, complexity_coef)]
    /\ UNCHANGED <<kind, status, min_threshold, max_threshold, hardness,
                   ctable_usize, complexity_coef, occam>>
    /\ UNCHANGED notCfg

NextEnumScore ==
    \/ ConstructEnumScorer
    \/ \E ratio \in {One} : EnumSetComplexityCoef(ratio)
    \/ \E tr \in EnumCandidates : EnumOperator(tr)

EnumScored(k) == kind = k /\ status = "ok" /\ call.op = "operator()"

\* C12: for every candidate and row, the component enum_table_bscore's
\* operator() emits is (count of the row's observations equal to the
\* candidate's output) - (row total): at most 0, 0 only when the candidate's
\* output matches every occurrence, and never above (largest single-output
\* count) - (row total).
C12_EnumTableRow ==
    EnumScored("enum_table_bscore") =>
        /\ Len(call.ret.first) = Len(ctable)
        /\ \A i \in 1 .. Len(ctable) :
               LET c == ctable[i].c
                   out == eval_cond(ctable[i].in, call.args[1])
                   r == call.ret.first[i]
               IN  /\ r = Rat(get(c, out) - total_count(c), 1)
                   /\ XLe(r, Zero)
                   /\ r = Zero <=> get(c, out) = total_count(c)
                   /\ XLe(r, Rat(MaxOf(c) - total_count(c), 1))

\* an if-chain scored on a row holding both outputs, one more often
C12_Witness ==
    /\ EnumScored("enum_table_bscore")
    /\ Len(call.args[1].branches) = 2
    /\ \E i \in 1 .. Len(ctable) :
           /\ ctable[i].c = [e1 |-> 2, e2 |-> 1]
           /\ call.ret.first[i] = Rat(-1, 1)

\* the penalty the scorer's class charges a candidate: graded_complexity for
\* an if-chain given to enum_graded_bscore or enum_effective_bscore,
\* tree_complexity otherwise
ChargedComplexity(k, tr, gr) ==
    IF k \in {"enum_graded_bscore", "enum_effective_bscore"} /\ ~is_enum_constant(tr)
    THEN graded_complexity(tr, gr)
    ELSE <<[w |-> One, of |-> tr]>>

\* C15: with the Occam penalty enabled, operator() returns as its scalar
\* penalty the candidate's complexity times complexity_coef for every
\* candidate, a bare enum constant included; with it disabled, 0.
C15_OccamPenaltyOnce ==
    (status = "ok" /\ kind \in EnumKinds /\ call.op = "operator()") =>
        call.ret.second =
            IF occam
            THEN [cpx |-> ChargedComplexity(kind, call.args[1], grading),
                  coef |-> complexity_coef]
            ELSE NoPenalty

\* the consequent is the most frequent output of the row
Dominant(c, consequent) == get(c, consequent) = MaxOf(c)

\* C16: on `if predicate then consequent else default`, enum_filter_bscore
\* subtracts punish * total_count from a row's table score exactly when the
\* predicate is true on the row and the consequent is not the row's most
\* frequent output; a bare enum constant gets the enum_table_bscore result.
C16_FilterPunishesNonDominant ==
    EnumScored("enum_filter_bscore") =>
        LET tr == call.args[1]
        IN  /\ is_enum_constant(tr) =>
                   call.ret = enum_table_operator(tr, ctable, occam, complexity_coef)
            /\ Len(tr.branches) = 1 =>
                   \A i \in 1 .. Len(ctable) :
                       LET c == ctable[i].c
                           sc == enum_table_row(c, eval_cond(ctable[i].in, tr))
                       IN  call.ret.first[i] =
                               IF /\ eval_binding(ctable[i].in, tr.branches[1].p)
                                  /\ ~Dominant(c, tr.branches[1].c)
                               THEN XSub(sc, XMul(punish, Rat(total_count(c), 1)))
                               ELSE sc

\* operator() of a scorer with graded complexity has charged an if-chain
GradedCharged ==
    /\ status = "ok" /\ call.op = "operator()"
    /\ kind \in {"enum_graded_bscore", "enum_effective_bscore"}
    /\ occam /\ ~is_enum_constant(call.args[1])

\* C17 as stated: for 0 < grading < 1 a predicate deeper in the if-chain
\* enters graded_complexity with a strictly smaller weight than one nearer
\* the head.
C17_DeeperWeighsLess ==
    GradedCharged =>
        LET terms == call.ret.second.cpx
        IN  \A k \in 1 .. Len(terms) - 1 : XLt(terms[k + 1].w, terms[k].w)

\* C17, amended: graded_complexity divides the weight by grading at every
\* branch, so for 0 < grading < 1 the k-th predicate (and the else clause
\* after n predicates) enters with weight 1 / grading^(k-1): strictly larger
\* the deeper it is in the chain.
C17_DeeperWeighsMore ==
    GradedCharged =>
        LET terms == call.ret.second.cpx
            tr == call.args[1]
        IN  /\ Len(terms) = Len(tr.branches) + 1
            /\ terms[1].w = One
            /\ \A k \in 1 .. Len(terms) - 1 :
                   /\ terms[k + 1].w = XDiv(terms[k].w, grading)
                   /\ XLt(terms[k].w, terms[k + 1].w)
            /\ \A k \in 1 .. Len(tr.branches) : terms[k].of = tr.branches[k].p
            /\ terms[Len(terms)].of = tr.else

\* a chain of two predicates charged by enum_graded_bscore with grading 1/2:
\* the weights are 1, 2 and 4
C17_Witness ==
    /\ GradedCharged /\ kind = "enum_graded_bscore"
    /\ grading = Half
    /\ Len(call.args[1].branches) = 2
    /\ call.ret.second.cpx[2].w = Rat(2, 1)
    /\ call.ret.second.cpx[3].w = Rat(4, 1)

\* C19: every enum scorer returns one component per row of the compressed
\* table, in table order; in particular enum_effective_bscore returns a
\* vector as long as the one enum_graded_bscore returns on the same table,
\* also when a row of the table merges several observations.
C19_OneComponentPerRow ==
    (status = "ok" /\ kind \in EnumKinds /\ call.op = "operator()") =>
        /\ DOMAIN call.ret.first = 1 .. Len(ctable)
        /\ Len(call.ret.first) =
               Len(enum_graded_operator(call.args[1], ctable, Half, occam,
                                        complexity_coef).first)

\* branch k (from 1; the else clause is Len(tr.branches) + 1) is the first in
\* program order whose predicate is true on vs
FirstTrueBranch(vs, tr, k) ==
    /\ k \in 1 .. Len(tr.branches) + 1
    /\ \A j \in 1 .. k - 1 : ~eval_binding(vs, tr.branches[j].p)
    /\ k <= Len(tr.branches) => eval_binding(vs, tr.branches[k].p)

\* C20: on an if-chain, enum_graded_bscore scores each row by exactly one
\* branch, the first whose predicate is true on the row or the else clause
\* when none is; the component is grading^k (k branches skipped) times
\* (count of that branch's consequent in the row - row total), hence <= 0,
\* and there is one component per row.
C20_GradedRow ==
    (EnumScored("enum_graded_bscore") /\ ~is_enum_constant(call.args[1])) =>
        LET tr == call.args[1]
        IN  /\ Len(call.ret.first) = Len(ctable)
            /\ \A i \in 1 .. Len(ctable) :
                   /\ \E k \in 1 .. Len(tr.branches) + 1 :
                          FirstTrueBranch(ctable[i].in, tr, k)
                   /\ \A k \in 1 .. Len(tr.branches) + 1 :
                          FirstTrueBranch(ctable[i].in, tr, k) =>
                              call.ret.first[i] =
                                  XMul(weight_times(grading, k - 1),
                                       Rat(get(ctable[i].c, consequent_at(tr, k))
                                           - total_count(ctable[i].c), 1))
                   /\ XLe(call.ret.first[i], Zero)

\* a chain of two predicates, both false on a row {e1:2, e2:1}, whose else
\* clause e1 scores the row: (2 - 3) / 4
C20_Witness ==
    /\ EnumScored("enum_graded_bscore")
    /\ grading = Half
    /\ Len(call.args[1].branches) = 2
    /\ \E i \in 1 .. Len(ctable) :
           /\ ctable[i].c = [e1 |-> 2, e2 |-> 1]
           /\ FirstTrueBranch(ctable[i].in, call.args[1], 3)
           /\ call.ret.first[i] = Rat(-1, 4)

-----------------------------------------------------------------------------
(* enum_effective_bscore on tables of up to MaxEffRows rows, so that the   *)
(* branches of a chain can resolve different rows.                         *)

\* a pure row of each output and a mixed row
EffCounters == {[e1 |-> 1, e2 |-> 0], [e1 |-> 2, e2 |-> 1], [e1 |-> 0, e2 |-> 2]}

\* construction of an enum_effective_bscore over a table
ConstructEffective ==
    /\ status = "none"
    /\ \E ct \in Tables(EffCounters, MaxEffRows) :
            /\ kind' = "enum_effective_bscore"
            /\ status' = "ok"
            /\ ctable' = ct
            /\ output_type' = "enum"
            /\ ctable_usize' = uncompressed_size(ct)
            /\ punish' = NoVal
            /\ grading' = Half
            /\ complexity_coef' = CoefRat(Zero)
            /\ occam' = FALSE
            /\ call' = [op |-> "construct", args |-> <<>>, pre_occam |-> FALSE, ret |-> NoRet]
            /\ UNCHANGED <<min_threshold, max_threshold, hardness>>
            /\ UNCHANGED <<positive, worst_norm, max_output>>
            /\ UNCHANGED <<discVars, ipVars, wrkVars, dscVars>>

NextEffective ==
    \/ ConstructEffective
    \/ \E ratio \in {One} : EnumSetComplexityCoef(ratio)
    \/ \E tr \in EnumCandidates : EnumOperator(tr)

\* branch k resolves row i: it is the first whose predicate is true on it
Resolves(tr, k, i) == FirstTrueBranch(ctable[i].in, tr, k)

\* branch k is effective: it resolves a row holding its consequent
Effective(tr, k) ==
    \E i \in 1 .. Len(ctable) :
        Resolves(tr, k, i) /\ get(ctable[i].c, tr.branches[k].c) # 0

\* operator() of enum_effective_bscore has scored an if-chain
EffectiveScored == EnumScored("enum_effective_bscore") /\ ~is_enum_constant(call.args[1])

\* C21: for an if-chain whose every branch is effective, enum_effective_bscore
\* gives every table row the component enum_graded_bscore gives it and the
\* same complexity penalty, and each row is scored by one branch only: the
\* first whose predicate is true on it, or the else clause.
C21_EffectiveRefinesGraded ==
    (EffectiveScored /\ \A k \in 1 .. Len(call.args[1].branches) :
                            Effective(call.args[1], k)) =>
        LET tr == call.args[1]
            graded == enum_graded_operator(tr, ctable, grading, occam, complexity_coef)
        IN  /\ \A i \in 1 .. Len(ctable) :
                   /\ call.ret.first[i] = graded.first[i]
                   /\ \A k \in 1 .. Len(tr.branches) + 1 :
                          Resolves(tr, k, i) =>
                              call.ret.first[i] =
                                  XMul(weight_times(grading, k - 1),
                                       Rat(get(ctable[i].c, consequent_at(tr, k))
                                           - total_count(ctable[i].c), 1))
            /\ call.ret.second = graded.second

\* a chain of two effective branches scored with the Occam penalty on: the
\* second branch resolves a row, with weight 1/2
C21_Witness ==
    /\ EffectiveScored /\ occam
    /\ Len(call.args[1].branches) = 2
    /\ \A k \in 1 .. 2 : Effective(call.args[1], k)
    /\ \E i \in 1 .. Len(ctable) :
           /\ Resolves(call.args[1], 2, i)
           /\ ctable[i].c = [e1 |-> 2, e2 |-> 1]
           /\ call.args[1].branches[2].c = "e1"
           /\ call.ret.first[i] = Rat(-1, 2)

\* the number of effective branches before branch k
EffectiveBefore(tr, k) == Cardinality({j \in 1 .. k - 1 : Effective(tr, j)})

\* C22: in enum_effective_bscore, the weight of the branch that scores a row
\* (the else clause included) is grading to the number of earlier effective
\* branches; a branch is effective iff it resolves a row holding at least one
\* occurrence of its consequent, and a branch that is not causes no decay.
C22_EffectiveWeight ==
    EffectiveScored =>
        LET tr == call.args[1]
        IN  \A i \in 1 .. Len(ctable) :
                \A k \in 1 .. Len(tr.branches) + 1 :
                    Resolves(tr, k, i) =>
                        call.ret.first[i] =
                            XMul(weight_times(grading, EffectiveBefore(tr, k)),
                                 Rat(get(ctable[i].c, consequent_at(tr, k))
                                     - total_count(ctable[i].c), 1))

\* the first branch fires, but only on a row without its consequent; the
\* second resolves a row {e1:2, e2:1} with consequent e1 at full weight
C22_Witness ==
    /\ EffectiveScored
    /\ Len(call.args[1].branches) = 2
    /\ ~Effective(call.args[1], 1)
    /\ \E i \in 1 .. Len(ctable) : Resolves(call.args[1], 1, i)
    /\ \E j \in 1 .. Len(ctable) :
           /\ Resolves(call.args[1], 2, j)
           /\ ctable[j].c = [e1 |-> 2, e2 |-> 1]
           /\ call.args[1].branches[2].c = "e1"
           /\ call.ret.first[j] = Rat(-1, 1)

-----------------------------------------------------------------------------
(* The discriminator and the scorers built on it, recall_bscore and        *)
(* prerec_bscore, over boolean tables of up to MaxDscRows rows.            *)

DscKinds == {"recall_bscore", "prerec_bscore"}

InitDsc ==
    /\ positive_total = NoVal
    /\ negative_total = NoVal
    /\ min_output = NoVal

\* the sum_outputs lambda of the discriminator on a boolean table
discriminator_sum_pos(c) == Rat(get(c, TRUE), 1)

\* sum_neg = totalc - sum_pos
discriminator_sum_neg(c) == XSub(Rat(total_count(c), 1), discriminator_sum_pos(c))

RECURSIVE SumRat(_, _)
SumRat(f, S) == IF S = {} THEN Zero
                ELSE LET x == CHOOSE y \in S : TRUE IN XAdd(f[x], SumRat(f, S \ {x}))

\* the totals the constructor of discriminator accumulates over the table
discriminator_totals(ct) ==
    [positive |-> SumRat([i \in 1 .. Len(ct) |-> discriminator_sum_pos(ct[i].c)],
                         1 .. Len(ct)),
     negative |-> SumRat([i \in 1 .. Len(ct) |-> discriminator_sum_neg(ct[i].c)],
                         1 .. Len(ct))]

\* (mutant) a row on which the candidate is false is not counted
discriminator_count_positives(tr, ct) ==
    LET on == {i \in 1 .. Len(ct) : eval_binding(ct[i].in, tr)}
        pos == [i \in 1 .. Len(ct) |-> discriminator_sum_pos(ct[i].c)]
        neg == [i \in 1 .. Len(ct) |-> discriminator_sum_neg(ct[i].c)]
        cnt == [i \in 1 .. Len(ct) |-> Rat(total_count(ct[i].c), 1)]
    IN  [true_positive_sum |-> SumRat(pos, on),
         false_positive_sum |-> SumRat(neg, on),
         positive_count |-> SumRat(cnt, on),
         true_negative_sum |-> Zero,
         false_negative_sum |-> Zero,
         negative_count |-> Zero]

\* discriminator::d_counts discriminator::count(tr) const
discriminator_count(tr, ct) ==
    LET on == {i \in 1 .. Len(ct) : eval_binding(ct[i].in, tr)}
        off == (1 .. Len(ct)) \ on
        pos == [i \in 1 .. Len(ct) |-> discriminator_sum_pos(ct[i].c)]
        neg == [i \in 1 .. Len(ct) |-> discriminator_sum_neg(ct[i].c)]
        cnt == [i \in 1 .. Len(ct) |-> Rat(total_count(ct[i].c), 1)]
    IN  [true_positive_sum |-> SumRat(pos, on),
         false_positive_sum |-> SumRat(neg, on),
         positive_count |-> SumRat(cnt, on),
         true_negative_sum |-> SumRat(neg, off),
         false_negative_sum |-> SumRat(pos, off),
         negative_count |-> SumRat(cnt, off)]

\* the two quotients recall_bscore::operator() and prerec_bscore::operator()
\* compute from the counts
discriminating_precision(ctr) ==
    XDiv(ctr.true_positive_sum, XAdd(ctr.true_positive_sum, ctr.false_positive_sum))
discriminating_recall(ctr) ==
    XDiv(ctr.true_positive_sum, XAdd(ctr.true_positive_sum, ctr.false_negative_sum))

\* penalized_behavioral_score recall_bscore::operator()(tr) and
\* prerec_bscore::operator()(tr): the score, with the counts and the two
\* quotients
discriminating_operator(k, tr, ct, mn, mx, hard, oc, coef) ==
    LET ctr == discriminator_count(tr, ct)
        precision == discriminating_precision(ctr)
        recall == discriminating_recall(ctr)
    IN  [first |-> IF k = "recall_bscore"
                   THEN <<recall, get_threshold_penalty(precision, mn, mx, hard)>>
                   ELSE <<precision, get_threshold_penalty(recall, mn, mx, hard)>>,
         second |-> IF oc THEN [cpx |-> tree_complexity(tr), coef |-> coef]
                    ELSE [cpx |-> 0, coef |-> CoefRat(Zero)],
         ctr |-> ctr,
         precision |-> precision,
         recall |-> recall]

\* the rows of the tables: all true, all false, and mixed
DscCounters ==
    {[b \in BOOLEAN |-> IF b THEN 2 ELSE 0], [b \in BOOLEAN |-> IF b THEN 0 ELSE 1],
     [b \in BOOLEAN |-> IF b THEN 1 ELSE 2]}

\* recall_bscore::recall_bscore and prerec_bscore::prerec_bscore, through
\* discriminating_bscore::discriminating_bscore and
\* discriminator::discriminator, on a boolean table
ConstructDiscriminating ==
    /\ status = "none"
    /\ \E k \in DscKinds, ct \in Tables(DscCounters, MaxDscRows) :
            /\ kind' = k
            /\ status' = IF discriminating_bscore_valid(Half, One, One) THEN "ok" ELSE "assert"
            /\ ctable' = ct
            /\ output_type' = "boolean"
            /\ positive_total' = discriminator_totals(ct).positive
            /\ negative_total' = discriminator_totals(ct).negative
            /\ ctable_usize' = uncompressed_size(ct)
            /\ min_threshold' = Half
            /\ max_threshold' = One
            /\ hardness' = One
            /\ max_output' = One
            /\ min_output' = Zero
            /\ complexity_coef' = CoefRat(Zero)
            /\ occam' = FALSE
            /\ call' = [op |-> "construct", args |-> <<Half, One, One>>,
                        pre_occam |-> FALSE, ret |-> NoRet]
            /\ UNCHANGED <<positive, worst_norm>>
            /\ UNCHANGED <<discVars, ipVars, enumVars, wrkVars>>

\* count(tr)
DiscriminatorCount(tr) ==
    /\ status = "ok" /\ kind \in DscKinds
    /\ call' = [op |-> "count", args |-> <<tr>>, pre_occam |-> occam,
                ret |-> discriminator_count(tr, ctable)]
    /\ UNCHANGED <<kind, status, min_threshold, max_threshold, hardness,
                   ctable_usize, complexity_coef, occam>>
    /\ UNCHANGED notCfg

\* operator()(tr) of the scorer's class
DiscriminatingOperator(tr) ==
    /\ status = "ok" /\ kind \in DscKinds
    /\ call' = [op |-> "operator()", args |-> <<tr>>, pre_occam |-> occam,
                ret |-> discriminating_operator(kind, tr, ctable, min_threshold,
                                                max_threshold, hardness, occam,
                                                complexity_coef)]
    /\ UNCHANGED <<kind, status, min_threshold, max_threshold, hardness,
                   ctable_usize, complexity_coef, occam>>
    /\ UNCHANGED notCfg

NextDsc ==
    \/ ConstructDiscriminating
    \/ \E tr \in Candidates : DiscriminatorCount(tr)
    \/ \E tr \in Candidates : DiscriminatingOperator(tr)

DscScored == status = "ok" /\ kind \in DscKinds /\ call.op = "operator()"

\* a score component is a number: finite and not NaN
WellDefined(x) == IsRat(x)

\* C24: for a candidate that is true on no row (true_positive_sum +
\* false_positive_sum = 0) and for a table without positive mass
\* (true_positive_sum + false_negative_sum = 0), recall_bscore and
\* prerec_bscore compute neither quotient by dividing by zero, and both
\* components of the score are well-defined numbers.
C24_DegenerateHandled ==
    DscScored =>
        LET ctr == call.ret.ctr
            no_active == XAdd(ctr.true_positive_sum, ctr.false_positive_sum) = Zero
            no_positive == XAdd(ctr.true_positive_sum, ctr.false_negative_sum) = Zero
        IN  (no_active \/ no_positive) =>
                /\ WellDefined(call.ret.precision)
                /\ WellDefined(call.ret.recall)
                /\ WellDefined(call.ret.first[1])
                /\ WellDefined(call.ret.first[2].dst)

\* count(tr) has returned
Counted == status = "ok" /\ kind \in DscKinds /\ call.op = "count"

\* a step of a constructed discriminator leaves its totals alone
TotalsUnchanged == status = "ok" => UNCHANGED <<positive_total, negative_total, ctable>>

\* C25: count puts every row in exactly one of the predicted-positive and
\* predicted-negative groups: on a boolean table true_positive_sum +
\* false_negative_sum is the positive total, false_positive_sum +
\* true_negative_sum the negative total, positive_count + negative_count the
\* uncompressed size, which is the sum of the two totals; the six
\* accumulators are non-negative, and count does not change the totals.
C25_CountPartitions ==
    /\ [](Counted =>
            LET ctr == call.ret
            IN  /\ XAdd(ctr.true_positive_sum, ctr.false_negative_sum) = positive_total
                /\ XAdd(ctr.false_positive_sum, ctr.true_negative_sum) = negative_total
                /\ XAdd(ctr.positive_count, ctr.negative_count) = Rat(ctable_usize, 1)
                /\ XAdd(positive_total, negative_total) = Rat(ctable_usize, 1)
                /\ XAdd(ctr.true_positive_sum, ctr.false_positive_sum) = ctr.positive_count
                /\ XAdd(ctr.true_negative_sum, ctr.false_negative_sum) = ctr.negative_count
                /\ \A f \in DOMAIN ctr : XLe(Zero, ctr[f]))
    /\ [][TotalsUnchanged]_vars

\* a candidate true on a mixed row and false on another row has been counted
C25_Witness ==
    /\ Counted /\ Len(ctable) = 2
    /\ call.ret.true_positive_sum = Rat(1, 1)
    /\ call.ret.false_positive_sum = Rat(2, 1)
    /\ call.ret.negative_count = Rat(2, 1)
    /\ call.ret.false_negative_sum = Rat(2, 1)

-----------------------------------------------------------------------------
(* Several workers inside precision_bscore::operator() on one scorer: the  *)
(* loop over the rows is one step per row, the rest of the body one step.  *)

Workers == {1, 2}

\* the locals of a worker outside operator()
Idle == [pc |-> "idle", tr |-> <<>>, row |-> 0, active |-> 0, sao |-> Zero,
         worst_deciles |-> <<>>, ret |-> <<>>]

InitWorkers == workers = [w \in Workers |-> Idle]

\* the candidates the workers score
WorkCandidates == { <<>>, << <<-1, -2>> >>, << <<-1, -2>>, <<-1, 2>> >> }

\* (mutant) active and sao kept in the scorer instead of on the stack: every
\* worker inside the loop sees the additions of the others
worker_row_shared(ws, w, ct, otype, pos, wn) ==
    LET i == ws[w].row
        hit == eval_binding(ct[i].in, ws[w].tr)
        sumo == sum_outputs(otype, pos, ct[i].c)
        totalc == total_count(ct[i].c)
    IN  [v \in DOMAIN ws |->
            IF v = w
            THEN [ws[v] EXCEPT
                    !.row = i + 1,
                    !.pc = IF i + 1 > Len(ct) THEN "finish" ELSE "loop",
                    !.sao = IF hit THEN XAdd(@, sumo) ELSE @,
                    !.active = IF hit THEN @ + totalc ELSE @,
                    !.worst_deciles = IF hit /\ wn /\ XLt(sumo, Zero)
                                      THEN multimap_insert(@, [k |-> sumo, cnt |-> totalc])
                                      ELSE @]
            ELSE IF ws[v].pc \in {"loop", "finish"}
            THEN [ws[v] EXCEPT
                    !.sao = IF hit THEN XAdd(@, sumo) ELSE @,
                    !.active = IF hit THEN @ + totalc ELSE @]
            ELSE ws[v]]

\* one iteration of the loop over the table in operator(): the row is added
\* to the worker's own active, sao and worst_deciles
worker_row(ws, w, ct, otype, pos, wn) ==
    LET i == ws[w].row
        hit == eval_binding(ct[i].in, ws[w].tr)
        sumo == sum_outputs(otype, pos, ct[i].c)
        totalc == total_count(ct[i].c)
    IN  [ws EXCEPT
            ![w].row = i + 1,
            ![w].pc = IF i + 1 > Len(ct) THEN "finish" ELSE "loop",
            ![w].sao = IF hit THEN XAdd(@, sumo) ELSE @,
            ![w].active = IF hit THEN @ + totalc ELSE @,
            ![w].worst_deciles = IF hit /\ wn /\ XLt(sumo, Zero)
                                 THEN multimap_insert(@, [k |-> sumo, cnt |-> totalc])
                                 ELSE @]

\* operator() after the loop: the worst deciles, the precision, the
\* activation penalty and the complexity penalty, from the worker's locals
precision_finish(tr, sao, active, worst_deciles, wn, maxo, usize, mn, mx, pen, oc, coef) ==
    LET normalize == wn /\ XLt(Zero, sao)
        scan == worst_scan(worst_deciles, 1, 0, Zero, active \div 10)
        avg_worst_deciles == IF normalize THEN XDiv(scan.avg, Rat(scan.worst_count, 1))
                             ELSE Zero
        precision0 == precision_of(sao, active, maxo)
        precision == IF XLt(avg_worst_deciles, Zero)
                     THEN XDiv(precision0, XNeg(avg_worst_deciles)) ELSE precision0
        activation == XDiv(Rat(active, 1), Rat(usize, 1))
    IN  [first |-> <<precision, get_activation_penalty(activation, mn, mx, pen)>>,
         second |-> IF oc THEN [cpx |-> tree_complexity(tr), coef |-> coef]
                    ELSE [cpx |-> 0, coef |-> CoefRat(Zero)]]

\* precision_bscore::precision_bscore over a continuous table, positive
ConstructShared ==
    /\ status = "none"
    /\ \E ct \in Tables(ContinCounters, MaxWorkRows), wn \in BOOLEAN :
            /\ kind' = "precision_bscore"
            /\ status' = IF precision_bscore_valid(Half, One, One) THEN "ok" ELSE "assert"
            /\ ctable' = ct
            /\ output_type' = "contin"
            /\ ctable_usize' = uncompressed_size(ct)
            /\ min_threshold' = Half
            /\ max_threshold' = One
            /\ hardness' = One
            /\ positive' = TRUE
            /\ worst_norm' = wn
            /\ max_output' = precision_max_output("contin", TRUE, ct)
            /\ complexity_coef' = CoefRat(Zero)
            /\ occam' = FALSE
            /\ call' = [op |-> "construct", args |-> <<Half, One, One>>,
                        pre_occam |-> FALSE, ret |-> NoRet]
            /\ UNCHANGED <<discVars, ipVars, enumVars, wrkVars, dscVars>>

\* a worker enters operator()(tr): its locals are initialized
WorkerCall(w, tr) ==
    /\ status = "ok" /\ kind = "precision_bscore"
    /\ workers[w].pc = "idle"
    /\ workers' = [workers EXCEPT ![w] = [Idle EXCEPT !.pc = "loop", !.tr = tr, !.row = 1]]
    /\ UNCHANGED <<cfgVars, discVars, tabVars, ipVars, enumVars, dscVars>>

\* a worker handles one row
WorkerRow(w) ==
    /\ workers[w].pc = "loop"
    /\ workers' = worker_row(workers, w, ctable, output_type, positive, worst_norm)
    /\ UNCHANGED <<cfgVars, discVars, tabVars, ipVars, enumVars, dscVars>>

\* a worker finishes operator() and returns
WorkerReturn(w) ==
    /\ workers[w].pc = "finish"
    /\ workers' = [workers EXCEPT
                     ![w].pc = "done",
                     ![w].ret = precision_finish(workers[w].tr, workers[w].sao,
                                                 workers[w].active,
                                                 workers[w].worst_deciles, worst_norm,
                                                 max_output, ctable_usize,
                                                 min_threshold, max_threshold,
                                                 hardness, occam, complexity_coef)]
    /\ UNCHANGED <<cfgVars, discVars, tabVars, ipVars, enumVars, dscVars>>

NextWorkers ==
    \/ ConstructShared
    \/ \E w \in Workers, tr \in WorkCandidates : WorkerCall(w, tr)
    \/ \E w \in Workers : WorkerRow(w)
    \/ \E w \in Workers : WorkerReturn(w)

\* every worker that has returned holds the score a sequential call gives
WorkersAgree ==
    \A w \in Workers :
        workers[w].pc = "done" =>
            LET seq == precision_operator(workers[w].tr, ctable, output_type,
                                          positive, worst_norm, max_output,
                                          ctable_usize, min_threshold,
                                          max_threshold, hardness, occam,
                                          complexity_coef)
            IN  /\ workers[w].ret.first = seq.first
                /\ workers[w].ret.second = seq.second

\* a step of a constructed scorer leaves its fields alone
ScorerUnchanged ==
    status = "ok" =>
        UNCHANGED <<kind, status, min_threshold, max_threshold, hardness,
                    ctable_usize, complexity_coef, occam, ctable, output_type,
                    positive, worst_norm, max_output>>

-----------------------------------------------------------------------------
(* Specifications: one object is modelled at a time.                       *)

Init == InitCfg /\ InitDisc /\ InitTab /\ InitIP /\ InitEnum /\ InitWorkers /\ InitDsc

\* the configured scorer (bscore_base, discriminating_bscore, precision_bscore)
Next == NextCfg

Spec == Init /\ [][Next]_vars

\* the discretizing scorer
SpecDiscretize == Init /\ [][NextDisc]_vars

\* one discretize_contin_bscore and its operator()
SpecDiscretizeScore == Init /\ [][NextDiscScore]_vars

\* enum_table_bscore
SpecEnum == Init /\ [][NextEnum]_vars

\* precision_bscore over a table
SpecPrecision == Init /\ [][NextPrec]_vars

\* precision_bscore over boolean tables of up to MaxBoundRows rows
SpecPrecisionBound == Init /\ [][NextPrecBound]_vars

\* interesting_predicate_bscore over a table
SpecInteresting == Init /\ [][NextIP]_vars

\* one interesting_predicate_bscore over several rows and its operator()
SpecInterestingRows == Init /\ [][NextIPRows]_vars

\* the enum scorers scoring candidates
SpecEnumScore == Init /\ [][NextEnumScore]_vars

\* one recall_bscore or prerec_bscore, its count and its operator()
SpecDiscriminator == Init /\ [][NextDsc]_vars

\* one enum_effective_bscore, its complexity coefficient, its operator()
SpecEffective == Init /\ [][NextEffective]_vars

\* two workers calling operator() on one precision_bscore
SpecWorkers == Init /\ [][NextWorkers]_vars

=============================================================================
